---- MODULE Spec2Model ----
(***************************************************************************)
(* Model of the power-log analysis pipeline of the Ade-Scripts repository: *)
(* section extractors, idle reader, statistics aggregator, timestamp       *)
(* loaders and the iteration-to-section mapping of the three experiments'  *)
(* power_metrics_aggregator.py scripts.                                    *)
(*                                                                         *)
(* A text file is a sequence of lines; a line is the record                *)
(*   [k |-> kind, fmt |-> format of its value, n |-> its number]           *)
(* where the kind says which of the scripts' tests and regular expressions *)
(* the line satisfies: "sep" (the 84-dash separator), "detail" (the        *)
(* '"PowerDetail": [' line), "open" ('{'), "close" ('}' or '},'), "Time",  *)
(* "CpuWatts", "DimmWatts", "Average" (a key line) and "other".            *)
(* A timestamp string is [fmt |-> "iso" | "bad", t |-> seconds]: "iso" is  *)
(* a well-formed %Y-%m-%dT%H:%M:%SZ string for instant t, "bad" a string   *)
(* of digits, '-', ':' and 'T' that ends in Z and that the date parsers    *)
(* reject (a month 13, say): it passes every regular expression of the     *)
(* scripts and fails in strptime and fromisoformat.                        *)
(***************************************************************************)
EXTENDS Integers, Sequences, FiniteSets, TLC

\* ------------------------------------------------------------- bounds
MaxItems == 3
MaxBody == 9
MaxSamples == 4
MaxIdleItems == 5
MaxIdleN == 3
MaxTime == 3

\* ---------------------------------------------------- program constants
TOTAL_SECTIONS == 8

MetricKeys == {"CpuWatts", "DimmWatts", "Average"}

\* ------------------------------------------------------- time strings
IsoZ(t) == [fmt |-> "iso", t |-> t]
BadZ == [fmt |-> "bad", t |-> 0]

\* datetime.strptime(s, "%Y-%m-%dT%H:%M:%SZ"): the instant, or ValueError
strptime(s) == IF s.fmt = "iso" THEN [ok |-> TRUE, dt |-> s.t] ELSE [ok |-> FALSE, dt |-> 0]

\* datetime.fromisoformat(s.replace("Z", "+00:00")): the instant, or ValueError
fromisoformat(s) == IF s.fmt = "iso" THEN [ok |-> TRUE, dt |-> s.t] ELSE [ok |-> FALSE, dt |-> 0]

\* Exp3's wrapper around fromisoformat
parse_datetime_from_string(s) == fromisoformat(s)

\* dt.strftime('%Y-%m-%dT%H:%M:%SZ')
strftime(dt) == IsoZ(dt)

\* ---------------------------------------------------------------- lines
Line(k) == [k |-> k, fmt |-> "", n |-> 0]
TimeLine(s) == [k |-> "Time", fmt |-> s.fmt, n |-> s.t]
NumLine(key, v) == [k |-> key, fmt |-> "int", n |-> v]

\* ------------------------------------------------- the power log's shape
(* A power log is built from items: a separator line, the head of a JSON   *)
(* dump (its '{', a top-level key, '"PowerDetail": ['), the foot of a dump *)
(* (']' and '}') and a PowerDetail entry.  An entry has a Time string or   *)
(* none and a subset of the metric keys; json.dumps(sort_keys=True) writes *)
(* its keys in the order Average, CpuWatts, DimmWatts, Time.  The entry at *)
(* position i of the log carries the values 10*i+1 (CpuWatts), 10*i+2      *)
(* (DimmWatts) and 10*i+3 (Average), so that a value names its entry: the  *)
(* scripts never look at a value.                                          *)
SepItem == [kind |-> "sep", hasTime |-> FALSE, time |-> BadZ, keys |-> {}]
HdrItem == [kind |-> "hdr", hasTime |-> FALSE, time |-> BadZ, keys |-> {}]
FtrItem == [kind |-> "ftr", hasTime |-> FALSE, time |-> BadZ, keys |-> {}]
Entry(hasTime, time, keys) == [kind |-> "entry", hasTime |-> hasTime, time |-> time, keys |-> keys]
CompleteEntry(t) == Entry(TRUE, IsoZ(t), MetricKeys)

ValueOf(i, key) == 10 * i + (CASE key = "CpuWatts" -> 1 [] key = "DimmWatts" -> 2 [] OTHER -> 3)
EntryOfValue(v) == v \div 10

ItemLines(item, i) ==
    CASE item.kind = "sep" -> <<Line("sep")>>
      [] item.kind = "hdr" -> <<Line("open"), Line("other"), Line("detail")>>
      [] item.kind = "ftr" -> <<Line("other"), Line("close")>>
      [] OTHER ->
           <<Line("open")>>
           \o (IF "Average" \in item.keys THEN <<NumLine("Average", ValueOf(i, "Average"))>> ELSE <<>>)
           \o (IF "CpuWatts" \in item.keys THEN <<NumLine("CpuWatts", ValueOf(i, "CpuWatts"))>> ELSE <<>>)
           \o (IF "DimmWatts" \in item.keys THEN <<NumLine("DimmWatts", ValueOf(i, "DimmWatts"))>> ELSE <<>>)
           \o (IF item.hasTime THEN <<TimeLine(item.time)>> ELSE <<>>)
           \o <<Line("close")>>

RECURSIVE LinesFrom(_, _, _)
LinesFrom(items, lo, hi) ==
    IF lo > hi THEN <<>>
    ELSE IF lo = hi THEN ItemLines(items[lo], lo)
    ELSE LET mid == (lo + hi) \div 2
         IN  LinesFrom(items, lo, mid) \o LinesFrom(items, mid + 1, hi)

LinesOf(items) == LinesFrom(items, 1, Len(items))

\* ------------------------------------------------- entry_data (a dict)
EmptyEntry == [has |-> {}, Time |-> BadZ, CpuWatts |-> 0, DimmWatts |-> 0, Average |-> 0]

\* the four re.search tests of a key line and the assignments they guard
SetField(entry, line) ==
    CASE line.k = "Time" -> [entry EXCEPT !.has = @ \cup {"Time"}, !.Time = [fmt |-> line.fmt, t |-> line.n]]
      [] line.k = "CpuWatts" -> [entry EXCEPT !.has = @ \cup {"CpuWatts"}, !.CpuWatts = line.n]
      [] line.k = "DimmWatts" -> [entry EXCEPT !.has = @ \cup {"DimmWatts"}, !.DimmWatts = line.n]
      [] line.k = "Average" -> [entry EXCEPT !.has = @ \cup {"Average"}, !.Average = line.n]
      [] OTHER -> entry

\* variant: the start bound taken as exclusive
InWindow_ExclusiveStart(t, startT, endT) == startT < t /\ t <= endT

\* start_time <= timestamp <= end_time
InWindow(t, startT, endT) == startT <= t /\ t <= endT

\* ------------------------------- Exp1 extract_section_values (lines 62-131)
EmptySection == [Time |-> <<>>, CpuWatts |-> <<>>, DimmWatts |-> <<>>, Average |-> <<>>]

Exp1_Start == [sections |-> <<>>, current |-> EmptySection, inside |-> FALSE, entry |-> EmptyEntry]

\* lines 92-98: the Time string, then each metric the entry has
Exp1_AppendEntry(sec, entry) ==
    [Time |-> Append(sec.Time, entry.Time),
     CpuWatts |-> IF "CpuWatts" \in entry.has THEN Append(sec.CpuWatts, entry.CpuWatts) ELSE sec.CpuWatts,
     DimmWatts |-> IF "DimmWatts" \in entry.has THEN Append(sec.DimmWatts, entry.DimmWatts) ELSE sec.DimmWatts,
     Average |-> IF "Average" \in entry.has THEN Append(sec.Average, entry.Average) ELSE sec.Average]

\* lines 82-99: the close marker of an entry
Exp1_Close(st, startT, endT) ==
    LET st1 == [st EXCEPT !.inside = FALSE]
        p == strptime(st.entry.Time)
    IN  IF "Time" \notin st.entry.has THEN st1
        ELSE IF ~p.ok THEN st1
        ELSE IF InWindow(p.dt, startT, endT)
             THEN [st1 EXCEPT !.current = Exp1_AppendEntry(st.current, st.entry)]
             ELSE st1

\* lines 69-114: the body of the loop over the lines
Exp1_Line(st, line, startT, endT) ==
    IF line.k = "sep"
    THEN [st EXCEPT !.sections = Append(@, st.current), !.current = EmptySection]
    ELSE IF line.k = "open"
    THEN [st EXCEPT !.entry = EmptyEntry, !.inside = TRUE]
    ELSE IF line.k = "close" /\ st.inside
    THEN Exp1_Close(st, startT, endT)
    ELSE IF st.inside
    THEN [st EXCEPT !.entry = SetField(@, line)]
    ELSE st

\* the for loop over lines[lo..hi], split in halves (the state after the first
\* half is computed before the second half starts) to keep the evaluation shallow
RECURSIVE Exp1_Loop(_, _, _, _, _, _)
Exp1_Loop(st, lines, lo, hi, startT, endT) ==
    IF lo > hi THEN st
    ELSE IF lo = hi THEN Exp1_Line(st, lines[lo], startT, endT)
    ELSE LET mid == (lo + hi) \div 2
             left == Exp1_Loop(st, lines, lo, mid, startT, endT)
         IN  IF DOMAIN left = {} THEN left
             ELSE Exp1_Loop(left, lines, mid + 1, hi, startT, endT)

SectionNonEmpty(sec) ==
    sec.Time # <<>> \/ sec.CpuWatts # <<>> \/ sec.DimmWatts # <<>> \/ sec.Average # <<>>

\* lines 116-118: the last section, appended when it holds anything
Exp1_Real(st) == IF SectionNonEmpty(st.current) THEN Append(st.sections, st.current) ELSE st.sections

\* variant: padding without the truncation
PadTruncate_NoTruncate(sections) ==
    [k \in 1..(IF Len(sections) > TOTAL_SECTIONS THEN Len(sections) ELSE TOTAL_SECTIONS) |->
        IF k <= Len(sections) THEN sections[k] ELSE EmptySection]

\* lines 123-129: pad to TOTAL_SECTIONS, then truncate to TOTAL_SECTIONS
PadTruncate(sections) ==
    [k \in 1..TOTAL_SECTIONS |-> IF k <= Len(sections) THEN sections[k] ELSE EmptySection]

\* the function on a readable file: the list of sections it returns
extract_section_values(lines, startT, endT) ==
    PadTruncate(Exp1_Real(Exp1_Loop(Exp1_Start, lines, 1, Len(lines), startT, endT)))

\* ------------------- Exp2 / Exp3 load_power_data_in_time_range
(* sections[key] is a list of lists of (value, timestamp) pairs (Exp2) or  *)
(* (timestamp, value) pairs (Exp3); a pair is [value, timestamp] here.     *)
Exp23_Start ==
    [CpuWatts |-> << <<>> >>, DimmWatts |-> << <<>> >>, Average |-> << <<>> >>,
     inpd |-> FALSE, entry |-> EmptyEntry, raised |-> FALSE]

AppendLast(secs, x) == [secs EXCEPT ![Len(secs)] = Append(@, x)]

\* the loop over the three metric keys: a pair for each key the entry has
Exp23_AppendEntry(st, entry, ts) ==
    [st EXCEPT
       !.CpuWatts = IF "CpuWatts" \in entry.has
                    THEN AppendLast(@, [value |-> entry.CpuWatts, timestamp |-> ts]) ELSE @,
       !.DimmWatts = IF "DimmWatts" \in entry.has
                     THEN AppendLast(@, [value |-> entry.DimmWatts, timestamp |-> ts]) ELSE @,
       !.Average = IF "Average" \in entry.has
                   THEN AppendLast(@, [value |-> entry.Average, timestamp |-> ts]) ELSE @]

\* Exp2 lines 161-180: a ValueError is caught, the entry is skipped
Exp2_Close(st, startT, endT) ==
    LET st1 == [st EXCEPT !.entry = EmptyEntry]
        p == fromisoformat(st.entry.Time)
    IN  IF "Time" \notin st.entry.has THEN st1
        ELSE IF ~p.ok THEN st1
        ELSE IF InWindow(p.dt, startT, endT)
             THEN [Exp23_AppendEntry(st, st.entry, strftime(p.dt)) EXCEPT !.entry = EmptyEntry]
             ELSE st1

\* Exp3 lines 50-62: no handler, a ValueError leaves the function
Exp3_Close(st, startT, endT) ==
    LET st1 == [st EXCEPT !.entry = EmptyEntry]
        p == parse_datetime_from_string(st.entry.Time)
    IN  IF "Time" \notin st.entry.has THEN st1
        ELSE IF ~p.ok THEN [st EXCEPT !.raised = TRUE]
        ELSE IF InWindow(p.dt, startT, endT)
             THEN [Exp23_AppendEntry(st, st.entry, st.entry.Time) EXCEPT !.entry = EmptyEntry]
             ELSE st1

\* variant: a separator line that starts no new section
NewSection_Forgotten(st) == st

\* a separator line after the PowerDetail line: a new list for each key
NewSection(st) ==
    [st EXCEPT !.CpuWatts = Append(@, <<>>), !.DimmWatts = Append(@, <<>>), !.Average = Append(@, <<>>)]

\* Exp2 lines 149-192: the body of the loop over the lines
Exp2_Line(st, line, startT, endT) ==
    IF line.k = "detail" THEN [st EXCEPT !.inpd = TRUE]
    ELSE IF line.k = "sep" /\ st.inpd THEN NewSection(st)
    ELSE IF ~st.inpd THEN st
    ELSE IF line.k = "open" THEN [st EXCEPT !.entry = EmptyEntry]
    ELSE IF line.k = "close" THEN Exp2_Close(st, startT, endT)
    ELSE [st EXCEPT !.entry = SetField(@, line)]

\* Exp3 lines 35-75: the body of the loop over the lines
Exp3_Line(st, line, startT, endT) ==
    IF line.k = "detail" THEN [st EXCEPT !.inpd = TRUE]
    ELSE IF line.k = "sep" /\ st.inpd THEN NewSection(st)
    ELSE IF ~st.inpd THEN st
    ELSE IF line.k = "open" THEN [st EXCEPT !.entry = EmptyEntry]
    ELSE IF line.k = "close" THEN Exp3_Close(st, startT, endT)
    ELSE [st EXCEPT !.entry = SetField(@, line)]

\* the for loop over lines[lo..hi], split in halves (the state after the first
\* half is computed before the second half starts) to keep the evaluation shallow
RECURSIVE Exp2_Loop(_, _, _, _, _, _)
Exp2_Loop(st, lines, lo, hi, startT, endT) ==
    IF lo > hi THEN st
    ELSE IF lo = hi THEN Exp2_Line(st, lines[lo], startT, endT)
    ELSE LET mid == (lo + hi) \div 2
             left == Exp2_Loop(st, lines, lo, mid, startT, endT)
         IN  IF DOMAIN left = {} THEN left
             ELSE Exp2_Loop(left, lines, mid + 1, hi, startT, endT)

\* the for loop over lines[lo..hi], split in halves (the state after the first
\* half is computed before the second half starts) to keep the evaluation shallow
RECURSIVE Exp3_Loop(_, _, _, _, _, _)
Exp3_Loop(st, lines, lo, hi, startT, endT) ==
    IF lo > hi THEN st
    ELSE IF lo = hi THEN IF st.raised THEN st ELSE Exp3_Line(st, lines[lo], startT, endT)
    ELSE LET mid == (lo + hi) \div 2
             left == Exp3_Loop(st, lines, lo, mid, startT, endT)
         IN  IF DOMAIN left = {} THEN left
             ELSE Exp3_Loop(left, lines, mid + 1, hi, startT, endT)

Returned(st) ==
    [raised |-> st.raised, CpuWatts |-> st.CpuWatts, DimmWatts |-> st.DimmWatts, Average |-> st.Average]

Exp2_load_power_data_in_time_range(lines, startT, endT) ==
    Returned(Exp2_Loop(Exp23_Start, lines, 1, Len(lines), startT, endT))

Exp3_load_power_data_in_time_range(lines, startT, endT) ==
    Returned(Exp3_Loop(Exp23_Start, lines, 1, Len(lines), startT, endT))

\* --------------------- get_last_X_idle_values (Exp1 lines 351-399, Exp3 83-125)
Idle_Start ==
    [CpuWatts |-> <<>>, DimmWatts |-> <<>>, Average |-> <<>>,
     count |-> 0, entry |-> EmptyEntry, broke |-> FALSE]

IdleComplete(entry) == {"CpuWatts", "DimmWatts", "Average"} \subseteq entry.has

\* a close marker: the collected entry_data is inserted at the front when it
\* has the three keys, the loop breaks at `number` entries; entry_data restarts
Idle_Close(st, number) ==
    IF IdleComplete(st.entry)
    THEN LET ins == [st EXCEPT !.CpuWatts = <<st.entry.CpuWatts>> \o @,
                               !.DimmWatts = <<st.entry.DimmWatts>> \o @,
                               !.Average = <<st.entry.Average>> \o @,
                               !.count = @ + 1]
         IN  IF ins.count >= number THEN [ins EXCEPT !.broke = TRUE]
             ELSE [ins EXCEPT !.entry = EmptyEntry]
    ELSE [st EXCEPT !.entry = EmptyEntry]

\* the three re.search tests of the idle reader (it has none for "Time")
Idle_SetField(entry, line) == IF line.k \in MetricKeys THEN SetField(entry, line) ELSE entry

\* the body of the loop over reversed(lines)
Idle_Line(st, line, number) ==
    IF st.broke THEN st
    ELSE IF line.k = "close" THEN Idle_Close(st, number)
    ELSE [st EXCEPT !.entry = Idle_SetField(@, line)]

\* the loop over lines[hi], lines[hi-1], ..., lines[lo], split in halves
RECURSIVE Idle_Loop(_, _, _, _, _)
Idle_Loop(st, lines, lo, hi, number) ==
    IF lo > hi THEN st
    ELSE IF lo = hi THEN Idle_Line(st, lines[lo], number)
    ELSE LET mid == (lo + hi) \div 2
             upper == Idle_Loop(st, lines, mid + 1, hi, number)
         IN  IF DOMAIN upper = {} THEN upper
             ELSE Idle_Loop(upper, lines, lo, mid, number)

IdleReturned(st) ==
    [raised |-> FALSE, CpuWatts |-> st.CpuWatts, DimmWatts |-> st.DimmWatts, Average |-> st.Average]

\* Exp1: on a file that exists (a missing file is caught and gives empty lists)
get_last_X_idle_values(lines, number) ==
    IdleReturned(Idle_Loop(Idle_Start, lines, 1, Len(lines), number))

\* Exp3: the same loop, without the try
Exp3_get_last_X_idle_values(lines, number) ==
    IdleReturned(Idle_Loop(Idle_Start, lines, 1, Len(lines), number))

\* ================================================================ state
VARIABLES
    powerItems,   \* the items the power log was written from
    powerLog,     \* ilo_power_all.txt: its lines
    winStart,     \* start_time handed to the extractor
    winEnd,       \* end_time handed to the extractor
    extFn,        \* which extractor ran: "none", "exp1", "exp2", "exp3"
    extRet,       \* what it returned
    idleItems,    \* the items the idle power file was written from
    idleLog,      \* ilo_power_idle.txt: its lines
    idleN,        \* the number of idle values asked for
    idleFn,       \* which idle reader ran: "none", "exp1", "exp3"
    idleRet,      \* what it returned
    statSamples,  \* the sample list handed to the statistics
    statFn,       \* which statistics ran: "none", "exp1", "exp2", "exp3"
    statRet,      \* what they returned
    tsExists,     \* whether the timestamp file exists
    tsLines,      \* the timestamp file: its lines
    tsFn,         \* which timestamp loader ran: "none", "exp1", "exp2", "exp3"
    tsRet,        \* what it returned
    iterDirs,     \* Exp1: the numbers K of the Iteration<K> directories present
    badTsDirs,    \* Exp1: those of them whose timestamp file gives no interval
    queryIds,     \* Exp3: the query numbers of the timestamp file, in file order
    numSections,  \* Exp3: how many sections the extractor returned
    unitFn,       \* which driver ran: "none", "exp1", "exp3"
    unitRows,     \* the rows it computed, in order
    execIters,    \* the ilo_power_timestamps.txt of each Iteration folder, by number
    execFn,       \* which execution-time analyzer ran: "none", "exp1", "exp2"
    execRet,      \* what it returned
    runScript,    \* the analysis script that is run
    runEngine,    \* the spreadsheet engine pandas writes with
    runBaseExists, \* whether the base directory given to it exists
    runSfDirs,    \* the SF directories under it: the groups of each
    runPc,        \* where the run is: "start", "loop", "exited"
    runIdx,       \* the SF directory the loop is at
    runExit,      \* the exit status, once exited
    runPrinted,   \* whether a message about the base path was printed
    runBooks,     \* the workbooks opened so far
    tblPower,     \* state of the target directory's ilo_power_all.txt
    tblIters,     \* the Iteration directories, in sorted order
    tblIdle,      \* the idle log of the target directory
    tblDone,      \* process_target_directory has returned
    tblRet,       \* what it returned
    ioFn,         \* which save_filtered_sda_sdb is called
    ioExists,     \* the input iostat file exists
    ioLines,      \* the lines of the input file
    ioSkipZeros,  \* argument skip_zeros
    ioWriteIter,  \* argument write_iteration
    ioBefore,     \* the output file before the call
    ioOut,        \* the output file
    ioDone,       \* the call has returned
    catFn,        \* which concatenation function is called
    catLines,     \* the lines given to strip_unwanted_sections
    catIter,      \* its iteration_number
    catFiles,     \* the per-iteration CPU-load files of the query
    catOut,       \* the lines returned, or the aggregated file
    catDone,      \* the call has returned
    pcmGroups,    \* the (scale factor, frequency, format) groups with pcm_stats files
    pcmPc,        \* where main of pcm_analyzer is
    pcmAverages,  \* sf_averages
    pcmSummary,   \* the groups print_summary has printed
    pcmBooks,     \* the scale factors whose workbook is written
    pcmExit       \* exit status of the run

extVars == <<powerItems, powerLog, winStart, winEnd, extFn, extRet>>
idleVars == <<idleItems, idleLog, idleN, idleFn, idleRet>>
statVars == <<statSamples, statFn, statRet>>
tsVars == <<tsExists, tsLines, tsFn, tsRet>>
unitVars == <<iterDirs, badTsDirs, queryIds, numSections, unitFn, unitRows>>
execVars == <<execIters, execFn, execRet>>
runVars == <<runScript, runEngine, runBaseExists, runSfDirs, runPc, runIdx, runExit, runPrinted, runBooks>>
tblVars == <<tblPower, tblIters, tblIdle, tblDone, tblRet>>
ioVars == <<ioFn, ioExists, ioLines, ioSkipZeros, ioWriteIter, ioBefore, ioOut, ioDone>>
catVars == <<catFn, catLines, catIter, catFiles, catOut, catDone>>
pcmVars == <<pcmGroups, pcmPc, pcmAverages, pcmSummary, pcmBooks, pcmExit>>
vars == <<extVars, idleVars, statVars, tsVars, unitVars, execVars, runVars, tblVars, ioVars, catVars, pcmVars>>

\* the variables outside one part of the pipeline
notExtVars == <<idleVars, statVars, tsVars, unitVars, execVars, runVars, tblVars, ioVars, catVars, pcmVars>>
notIdleVars == <<extVars, statVars, tsVars, unitVars, execVars, runVars, tblVars, ioVars, catVars, pcmVars>>
notStatVars == <<extVars, idleVars, tsVars, unitVars, execVars, runVars, tblVars, ioVars, catVars, pcmVars>>
notTsVars == <<extVars, idleVars, statVars, unitVars, execVars, runVars, tblVars, ioVars, catVars, pcmVars>>
notUnitVars == <<extVars, idleVars, statVars, tsVars, execVars, runVars, tblVars, ioVars, catVars, pcmVars>>
notExecVars == <<extVars, idleVars, statVars, tsVars, unitVars, runVars, tblVars, ioVars, catVars, pcmVars>>
notRunVars == <<extVars, idleVars, statVars, tsVars, unitVars, execVars, tblVars, ioVars, catVars, pcmVars>>
notTblVars == <<extVars, idleVars, statVars, tsVars, unitVars, execVars, runVars, ioVars, catVars, pcmVars>>
notIoVars == <<extVars, idleVars, statVars, tsVars, unitVars, execVars, runVars, tblVars, catVars, pcmVars>>
notCatVars == <<extVars, idleVars, statVars, tsVars, unitVars, execVars, runVars, tblVars, ioVars, pcmVars>>
notPcmVars == <<extVars, idleVars, statVars, tsVars, unitVars, execVars, runVars, tblVars, ioVars, catVars>>

\* the variables of a part of the pipeline that a specification leaves out
ExtParked ==
    /\ powerItems = <<>> /\ powerLog = <<>> /\ winStart = 0 /\ winEnd = 0
    /\ extFn = "none" /\ extRet = <<>>
IdleParked ==
    /\ idleItems = <<>> /\ idleLog = <<>> /\ idleN = 0 /\ idleFn = "none" /\ idleRet = <<>>
StatParked ==
    /\ statSamples = <<>> /\ statFn = "none" /\ statRet = <<>>
TsParked ==
    /\ tsExists = FALSE /\ tsLines = <<>> /\ tsFn = "none" /\ tsRet = <<>>
UnitParked ==
    /\ iterDirs = {} /\ badTsDirs = {} /\ queryIds = <<>> /\ numSections = 0
    /\ unitFn = "none" /\ unitRows = <<>>
ExecParked ==
    /\ execIters = <<>> /\ execFn = "none" /\ execRet = <<>>

RunParked ==
    /\ runScript = "none" /\ runEngine = "none" /\ runBaseExists = FALSE /\ runSfDirs = <<>>
    /\ runPc = "start" /\ runIdx = 0 /\ runExit = 0 /\ runPrinted = FALSE /\ runBooks = <<>>

TblParked ==
    /\ tblPower = "none" /\ tblIters = <<>> /\ tblIdle = [exists |-> FALSE, values |-> <<>>] /\ tblDone = FALSE /\ tblRet = [table |-> FALSE, rows |-> <<>>]

IoParked ==
    /\ ioFn = "none" /\ ioExists = FALSE /\ ioLines = <<>> /\ ioSkipZeros = FALSE /\ ioWriteIter = FALSE /\ ioBefore = <<>> /\ ioOut = <<>> /\ ioDone = FALSE

CatParked ==
    /\ catFn = "none" /\ catLines = <<>> /\ catIter = 0 /\ catFiles = <<>> /\ catOut = <<>> /\ catDone = FALSE

PcmParked ==
    /\ pcmGroups = <<>> /\ pcmPc = "none" /\ pcmAverages = <<>> /\ pcmSummary = 0 /\ pcmBooks = {} /\ pcmExit = 0

NotExtParked == IdleParked /\ StatParked /\ TsParked /\ UnitParked /\ ExecParked /\ RunParked /\ TblParked /\ IoParked /\ CatParked /\ PcmParked
NotIdleParked == ExtParked /\ StatParked /\ TsParked /\ UnitParked /\ ExecParked /\ RunParked /\ TblParked /\ IoParked /\ CatParked /\ PcmParked
NotStatParked == ExtParked /\ IdleParked /\ TsParked /\ UnitParked /\ ExecParked /\ RunParked /\ TblParked /\ IoParked /\ CatParked /\ PcmParked
NotTsParked == ExtParked /\ IdleParked /\ StatParked /\ UnitParked /\ ExecParked /\ RunParked /\ TblParked /\ IoParked /\ CatParked /\ PcmParked
NotUnitParked == ExtParked /\ IdleParked /\ StatParked /\ TsParked /\ ExecParked /\ RunParked /\ TblParked /\ IoParked /\ CatParked /\ PcmParked
NotExecParked == ExtParked /\ IdleParked /\ StatParked /\ TsParked /\ UnitParked /\ RunParked /\ TblParked /\ IoParked /\ CatParked /\ PcmParked
NotRunParked == ExtParked /\ IdleParked /\ StatParked /\ TsParked /\ UnitParked /\ ExecParked /\ TblParked /\ IoParked /\ CatParked /\ PcmParked
NotTblParked == ExtParked /\ IdleParked /\ StatParked /\ TsParked /\ UnitParked /\ ExecParked /\ RunParked /\ IoParked /\ CatParked /\ PcmParked
NotIoParked == ExtParked /\ IdleParked /\ StatParked /\ TsParked /\ UnitParked /\ ExecParked /\ RunParked /\ TblParked /\ CatParked /\ PcmParked
NotCatParked == ExtParked /\ IdleParked /\ StatParked /\ TsParked /\ UnitParked /\ ExecParked /\ RunParked /\ TblParked /\ IoParked /\ PcmParked
NotPcmParked == ExtParked /\ IdleParked /\ StatParked /\ TsParked /\ UnitParked /\ ExecParked /\ RunParked /\ TblParked /\ IoParked /\ CatParked

\* ------------------------------------------------ inputs: power logs
Times == 0..MaxTime

ItemSet ==
    {SepItem, HdrItem, FtrItem}
    \cup {CompleteEntry(t) : t \in Times}
    \cup {Entry(TRUE, IsoZ(1), {"CpuWatts", "Average"}),
          Entry(TRUE, IsoZ(2), {"DimmWatts"}),
          Entry(FALSE, BadZ, MetricKeys),
          Entry(TRUE, BadZ, MetricKeys)}

\* A log is empty, or holds a first dump's head, maybe after a separator
\* line, and then any items: every entry lies inside a PowerDetail array.
LogsOver(alphabet, maxLen) ==
    {lead \o <<HdrItem>> \o body :
        lead \in {<<>>, <<SepItem>>},
        body \in UNION {[1..n -> alphabet] : n \in 0..maxLen}}

ShortLogs == {<<>>} \cup LogsOver(ItemSet, MaxItems)

\* long logs of separators and complete in-window entries
LongLogs == LogsOver({SepItem, CompleteEntry(1)}, MaxBody)

\* one dump of complete entries at every instant, for the window's bounds
WindowLogs == LogsOver({CompleteEntry(t) : t \in Times}, MaxSamples)

Windows == {<<1, 2>>, <<2, 2>>}

ExtInit ==
    /\ powerItems \in ShortLogs \cup LongLogs \cup WindowLogs
    /\ powerLog = LinesOf(powerItems)
    /\ \E w \in Windows : winStart = w[1] /\ winEnd = w[2]
    /\ extFn = "none"
    /\ extRet = <<>>
    /\ NotExtParked

\* ------------------------------------------------------------- actions
Exp1Extract ==
    /\ extFn = "none"
    /\ extFn' = "exp1"
    /\ extRet' = extract_section_values(powerLog, winStart, winEnd)
    /\ UNCHANGED <<powerItems, powerLog, winStart, winEnd>>
    /\ UNCHANGED notExtVars

Exp2Load ==
    /\ extFn = "none"
    /\ extFn' = "exp2"
    /\ extRet' = Exp2_load_power_data_in_time_range(powerLog, winStart, winEnd)
    /\ UNCHANGED <<powerItems, powerLog, winStart, winEnd>>
    /\ UNCHANGED notExtVars

Exp3Load ==
    /\ extFn = "none"
    /\ extFn' = "exp3"
    /\ extRet' = Exp3_load_power_data_in_time_range(powerLog, winStart, winEnd)
    /\ UNCHANGED <<powerItems, powerLog, winStart, winEnd>>
    /\ UNCHANGED notExtVars

ExtNext == Exp1Extract \/ Exp2Load \/ Exp3Load

SpecExtract == ExtInit /\ [][ExtNext]_vars

\* ------------------------------------------------ inputs: idle files
IdleItemSet ==
    {HdrItem, FtrItem, CompleteEntry(1),
     Entry(TRUE, IsoZ(1), {"CpuWatts", "Average"}),
     Entry(FALSE, BadZ, MetricKeys)}

IdleInit ==
    /\ idleItems \in LogsOver(IdleItemSet, MaxIdleItems)
    /\ idleLog = LinesOf(idleItems)
    /\ idleN \in 1..MaxIdleN
    /\ idleFn = "none"
    /\ idleRet = <<>>
    /\ NotIdleParked

Exp1Idle ==
    /\ idleFn = "none"
    /\ idleFn' = "exp1"
    /\ idleRet' = get_last_X_idle_values(idleLog, idleN)
    /\ UNCHANGED <<idleItems, idleLog, idleN>>
    /\ UNCHANGED notIdleVars

Exp3Idle ==
    /\ idleFn = "none"
    /\ idleFn' = "exp3"
    /\ idleRet' = Exp3_get_last_X_idle_values(idleLog, idleN)
    /\ UNCHANGED <<idleItems, idleLog, idleN>>
    /\ UNCHANGED notIdleVars

IdleNext == Exp1Idle \/ Exp3Idle

SpecIdle == IdleInit /\ [][IdleNext]_vars

\* ============================================ what the extractors should do
\* (stated on the items of the log, not on its lines)
Min(a, b) == IF a < b THEN a ELSE b

\* the elements of a finite set of integers in ascending order
AscSeq(S) == [j \in 1..Cardinality(S) |-> CHOOSE x \in S : Cardinality({y \in S : y < x}) = j - 1]

EntryIdx == {i \in 1..Len(powerItems) : powerItems[i].kind = "entry"}
SepIdx == {i \in 1..Len(powerItems) : powerItems[i].kind = "sep"}
HdrIdx == {i \in 1..Len(powerItems) : powerItems[i].kind = "hdr"}

\* separator lines before item i; those of them that follow a PowerDetail line
SepsBefore(i) == Cardinality({j \in SepIdx : j < i})
CountedSepIdx == {j \in SepIdx : \E h \in HdrIdx : h < j}
CountedSepsBefore(i) == Cardinality({j \in CountedSepIdx : j < i})

\* an entry with all required keys; an entry whose timestamp lies in the window
IsComplete(i) == powerItems[i].hasTime /\ powerItems[i].keys = MetricKeys
HasInstant(i) == powerItems[i].hasTime /\ powerItems[i].time.fmt = "iso"
InWin(i) == HasInstant(i) /\ winStart <= powerItems[i].time.t /\ powerItems[i].time.t <= winEnd

Ran == extFn # "none"
Raised == extFn \in {"exp2", "exp3"} /\ extRet.raised
Returns == Ran /\ ~Raised

NumSections == IF extFn = "exp1" THEN Len(extRet) ELSE Len(extRet.CpuWatts)

\* the values of metric m in returned section k
Vals(k, m) ==
    IF extFn = "exp1" THEN extRet[k][m]
    ELSE [j \in 1..Len(extRet[m][k]) |-> extRet[m][k][j].value]

\* the timestamps that returned section k holds
Stamps(k, m) ==
    IF extFn = "exp1" THEN extRet[k].Time
    ELSE [j \in 1..Len(extRet[m][k]) |-> extRet[m][k][j].timestamp]

\* the section (from 1) an entry belongs to, as the extractor that ran counts
SectionOf(i) == 1 + (IF extFn = "exp1" THEN SepsBefore(i) ELSE CountedSepsBefore(i))

IsCompleteValue(v) == IsComplete(EntryOfValue(v))

\* metric m of the complete in-window entries of section k, in file order
CompleteInWindow(k, m) ==
    LET S == {i \in EntryIdx : IsComplete(i) /\ InWin(i) /\ SectionOf(i) = k}
        idx == AscSeq(S)
    IN  [j \in 1..Len(idx) |-> ValueOf(idx[j], m)]

\* metric m of the entries of section k that the code keeps: a timestamp in
\* the window and the key present
Kept(k, m) ==
    LET S == {i \in EntryIdx : InWin(i) /\ m \in powerItems[i].keys /\ SectionOf(i) = k}
        idx == AscSeq(S)
    IN  [j \in 1..Len(idx) |-> ValueOf(idx[j], m)]

Exp1_KeptTimes(k) ==
    LET S == {i \in EntryIdx : InWin(i) /\ SectionOf(i) = k}
        idx == AscSeq(S)
    IN  [j \in 1..Len(idx) |-> powerItems[idx[j]].time]

Exp1_RealSection(k) ==
    [Time |-> Exp1_KeptTimes(k), CpuWatts |-> Kept(k, "CpuWatts"),
     DimmWatts |-> Kept(k, "DimmWatts"), Average |-> Kept(k, "Average")]

Exp1_RealCount ==
    Cardinality(SepIdx)
    + (IF \E i \in EntryIdx : InWin(i) /\ SepsBefore(i) = Cardinality(SepIdx) THEN 1 ELSE 0)

\* C3: Exp1 returns exactly TOTAL_SECTIONS sections: the first min(r, 8) are
\* the r real sections of the log in file order, the others are empty.
C3_FixedSectionCount ==
    extFn = "exp1" =>
        /\ Len(extRet) = TOTAL_SECTIONS
        /\ \A k \in 1..TOTAL_SECTIONS :
              extRet[k] = IF k <= Min(Exp1_RealCount, TOTAL_SECTIONS)
                          THEN Exp1_RealSection(k) ELSE EmptySection

\* more than TOTAL_SECTIONS real sections, the last of them holding a sample
C3_Witness ==
    /\ extFn = "exp1"
    /\ Exp1_RealCount > TOTAL_SECTIONS
    /\ \E i \in EntryIdx : InWin(i) /\ SepsBefore(i) >= TOTAL_SECTIONS
    /\ \E i \in EntryIdx : InWin(i) /\ SepsBefore(i) < TOTAL_SECTIONS
    /\ Len(extRet) = TOTAL_SECTIONS

\* C4 as stated: an entry that lacks a required key adds no value to any
\* metric list of any section.
C4_IncompleteEntryDiscarded ==
    Returns =>
        \A k \in 1..NumSections : \A m \in MetricKeys :
            \A j \in 1..Len(Vals(k, m)) : IsComplete(EntryOfValue(Vals(k, m)[j]))

\* the closed entries whose Time string is no valid timestamp
BadTimeIdx == {i \in EntryIdx : powerItems[i].hasTime /\ powerItems[i].time.fmt # "iso"}

\* C12: in every extractor a closed entry whose Time string is not a valid
\* timestamp is dropped, no exception leaves the extractor, and the entries
\* after it are still processed: every section holds the values of its kept
\* entries, those before and those after the dropped one.
C12_BadTimeDropped ==
    (Ran /\ BadTimeIdx # {}) =>
        /\ ~Raised
        /\ \A k \in 1..NumSections : \A m \in MetricKeys :
              /\ \A j \in 1..Len(Vals(k, m)) : EntryOfValue(Vals(k, m)[j]) \notin BadTimeIdx
              /\ Vals(k, m) = Kept(k, m)

\* C20: in every section Exp1 returns, the Time, CpuWatts, DimmWatts and
\* Average lists have one length, and position j of each comes from one and
\* the same entry of the log.
C20_ListsAligned ==
    extFn = "exp1" =>
        \A k \in 1..Len(extRet) :
            /\ Len(extRet[k].CpuWatts) = Len(extRet[k].Time)
            /\ Len(extRet[k].DimmWatts) = Len(extRet[k].Time)
            /\ Len(extRet[k].Average) = Len(extRet[k].Time)
            /\ \A j \in 1..Len(extRet[k].Time) :
                  LET i == EntryOfValue(extRet[k].CpuWatts[j])
                  IN  /\ EntryOfValue(extRet[k].DimmWatts[j]) = i
                      /\ EntryOfValue(extRet[k].Average[j]) = i
                      /\ i \in EntryIdx
                      /\ extRet[k].Time[j] = powerItems[i].time

\* ============================================ what the idle reader should do
\* the entries of the idle file that have CpuWatts, DimmWatts and Average
IdleCompleteIdx ==
    {i \in 1..Len(idleItems) : idleItems[i].kind = "entry" /\ idleItems[i].keys = MetricKeys}

\* metric m of the last n complete entries of the idle file, in file order
LastComplete(n, m) ==
    LET all == AscSeq(IdleCompleteIdx)
        k == Len(all)
    IN  [j \in 1..Min(n, k) |-> ValueOf(all[k - Min(n, k) + j], m)]

\* C5 as stated: with k complete entries in the file the reader returns, for
\* each metric, the values of the last min(N, k) complete entries in file order.
C5_LastMinNK ==
    idleFn # "none" =>
        /\ ~idleRet.raised
        /\ \A m \in MetricKeys : idleRet[m] = LastComplete(idleN, m)

\* ========================================================== statistics
\* The statistics work on floats.  The model keeps every float exact: a
\* number is a fraction num/den in lowest terms, a square root is kept as
\* the fraction under the root, and None is the undefined result.
MaxStatLen == 4
MaxWatt == 4

None == [kind |-> "None", num |-> 0, den |-> 1]

RECURSIVE GCD(_, _)
GCD(a, b) == IF b = 0 THEN a ELSE GCD(b, a % b)

Abs(n) == IF n < 0 THEN -n ELSE n

\* the float n/d  (d > 0)
Num(n, d) ==
    LET g == GCD(Abs(n), d)
    IN  [kind |-> "num", num |-> n \div g, den |-> d \div g]

Add(a, b) == Num(a.num * b.den + b.num * a.den, a.den * b.den)
Sub(a, b) == Num(a.num * b.den - b.num * a.den, a.den * b.den)
Mul(a, b) == Num(a.num * b.num, a.den * b.den)
\* a / b for b > 0
Div(a, b) == Num(a.num * b.den, a.den * b.num)

\* math.sqrt(v), v >= 0
sqrt(v) == [kind |-> "sqrt", num |-> v.num, den |-> v.den]
\* sqrt(a) / sqrt(b)
SqrtDiv(a, b) == sqrt(Div(Num(a.num, a.den), Num(b.num, b.den)))

\* sum(data) over integers
RECURSIVE sum(_)
sum(data) == IF data = <<>> THEN 0 ELSE data[1] + sum(Tail(data))

\* sum((x - avg) ** 2 for x in data)
RECURSIVE SumSqDev(_, _)
SumSqDev(data, avg) ==
    IF data = <<>> THEN Num(0, 1)
    ELSE LET d == Sub(Num(data[1], 1), avg)
         IN  Add(Mul(d, d), SumSqDev(Tail(data), avg))

\* a variance that divides by n instead of n - 1
variance_DivisorN(data, avg) == Div(SumSqDev(data, avg), Num(Len(data), 1))

\* Exp1 calc_stats: variance = sum((x - avg) ** 2 for x in data) / (len(data) - 1)
variance(data, avg) == Div(SumSqDev(data, avg), Num(Len(data) - 1, 1))

\* Exp1 compute_statistics.calc_stats
calc_stats(data) ==
    IF data = <<>>
    THEN [Average |-> None, StdDev |-> None, StdError |-> None]
    ELSE LET avg == Div(Num(sum(data), 1), Num(Len(data), 1))
         IN  IF Len(data) > 1
             THEN LET stddev == sqrt(variance(data, avg))
                      stderr == SqrtDiv(stddev, sqrt(Num(Len(data), 1)))
                  IN  [Average |-> avg, StdDev |-> stddev, StdError |-> stderr]
             ELSE [Average |-> avg, StdDev |-> None, StdError |-> None]

\* numpy: np.mean(values), np.std(values, ddof)
np_mean(values) == Div(Num(sum(values), 1), Num(Len(values), 1))
np_std(values, ddof) ==
    sqrt(Div(SumSqDev(values, np_mean(values)), Num(Len(values) - ddof, 1)))

\* Exp2 calculate_sample_std
calculate_sample_std(values) ==
    IF Len(values) > 1 THEN np_std(values, 1) ELSE None

\* Exp2 calculate_std_error
calculate_std_error(values) ==
    IF Len(values) > 1
    THEN SqrtDiv(calculate_sample_std(values), sqrt(Num(Len(values), 1)))
    ELSE None

\* Exp2 extract_phase_metrics: the three statistics of one metric
Exp2_phase_stats(flat_values) ==
    [Average  |-> IF flat_values # <<>> THEN np_mean(flat_values) ELSE None,
     StdDev   |-> IF flat_values # <<>> THEN calculate_sample_std(flat_values) ELSE None,
     StdError |-> IF flat_values # <<>> THEN calculate_std_error(flat_values) ELSE None]

\* statistics.stdev(values), two values or more
stdev(values) ==
    sqrt(Div(SumSqDev(values, Div(Num(sum(values), 1), Num(Len(values), 1))),
             Num(Len(values) - 1, 1)))

\* Exp3 find_folders_and_process: the three statistics of one query's section
Exp3_section_stats(values) ==
    IF values # <<>>
    THEN LET average_power == Div(Num(sum(values), 1), Num(Len(values), 1))
             std_dev_power == IF Len(values) > 1 THEN stdev(values) ELSE Num(0, 1)
             std_err_power == IF Len(values) > 1
                              THEN SqrtDiv(std_dev_power, sqrt(Num(Len(values), 1)))
                              ELSE Num(0, 1)
         IN  [Average |-> average_power, StdDev |-> std_dev_power,
              StdError |-> std_err_power]
    ELSE [Average |-> Num(0, 1), StdDev |-> Num(0, 1), StdError |-> Num(0, 1)]

SampleLists == UNION {[1..n -> 0..MaxWatt] : n \in 0..MaxStatLen}

StatInit ==
    /\ statSamples \in SampleLists
    /\ statFn = "none"
    /\ statRet = <<>>
    /\ NotStatParked

Exp1Stats ==
    /\ statFn = "none"
    /\ statFn' = "exp1"
    /\ statRet' = calc_stats(statSamples)
    /\ UNCHANGED <<statSamples, notStatVars>>

Exp2Stats ==
    /\ statFn = "none"
    /\ statFn' = "exp2"
    /\ statRet' = Exp2_phase_stats(statSamples)
    /\ UNCHANGED <<statSamples, notStatVars>>

Exp3Stats ==
    /\ statFn = "none"
    /\ statFn' = "exp3"
    /\ statRet' = Exp3_section_stats(statSamples)
    /\ UNCHANGED <<statSamples, notStatVars>>

StatNext == Exp1Stats \/ Exp2Stats \/ Exp3Stats

SpecStats == StatInit /\ [][StatNext]_vars

\* sum of the squares of the samples
RECURSIVE SumOfSquares(_)
SumOfSquares(data) ==
    IF data = <<>> THEN 0 ELSE data[1] * data[1] + SumOfSquares(Tail(data))

\* C7: for a sample list of fewer than 2 elements the statistics return None,
\* never 0, for the sample standard deviation and the standard error; for the
\* empty list the mean is None too, and for a singleton the mean is its
\* element.
C7_UndefinedBelowTwo ==
    (statFn # "none" /\ Len(statSamples) < 2) =>
        /\ statRet.StdDev = None
        /\ statRet.StdError = None
        /\ (Len(statSamples) = 0 => statRet.Average = None)
        /\ (Len(statSamples) = 1 => statRet.Average = Num(statSamples[1], 1))

\* C8: for n >= 2 integer samples the statistics return mean = sum / n, a
\* sample standard deviation whose square times (n - 1) is the sum of the
\* squared deviations from the mean (divisor n - 1, not n), and a standard
\* error whose square times n is the square of the standard deviation.  The
\* sum of the squared deviations is n * sum(x^2) - sum(x)^2, over n.
C8_BesselAndStdError ==
    (statFn # "none" /\ Len(statSamples) >= 2) =>
        LET n  == Len(statSamples)
            mean == statRet.Average
            sd == statRet.StdDev
            se == statRet.StdError
        IN  /\ mean.kind = "num" /\ mean.num * n = sum(statSamples) * mean.den
            /\ sd.kind = "sqrt"
            /\ sd.num * (n - 1) * n
                   = (n * SumOfSquares(statSamples) - sum(statSamples) * sum(statSamples)) * sd.den
            /\ se.kind = "sqrt"
            /\ se.num * n * sd.den = sd.num * se.den

\* three samples 1, 2, 4: mean 7/3, variance 7/3, squared standard error 7/9
C8_Witness ==
    /\ statFn \in {"exp1", "exp2"}
    /\ statSamples = <<1, 2, 4>>
    /\ statRet.Average = Num(7, 3)
    /\ statRet.StdDev = sqrt(Num(7, 3))
    /\ statRet.StdError = sqrt(Num(7, 9))

\* ==================================================== timestamp loaders
\* A line of a timestamp file is the record
\*   [k, label, id, start, end, secs]
\* whose kind k says which regular expression it satisfies:
\*   "time"   Start Time = <start>, End Time = <end>             (Exp1, Exp2)
\*   "label"  <label>:                                            (Exp2)
\*   "query"  Query <id>: Start Time = <start>, Finish Time = <end>   (Exp3)
\*   "exec"   Total Query Execution Time: <secs> seconds          (Exp1)
\*   "other"  anything else
MaxTsLines == 3
\* a datetime that is None
NoTime == -1

TsLine(k, label, id, start, end, secs) ==
    [k |-> k, label |-> label, id |-> id, start |-> start, end |-> end, secs |-> secs]
TsTime(start, end) == TsLine("time", "", 0, start, end, 0)
TsLabel(label) == TsLine("label", label, 0, BadZ, BadZ, 0)
TsQuery(id, start, end) == TsLine("query", "", id, start, end, 0)
TsExec(secs) == TsLine("exec", "", 0, BadZ, BadZ, secs)
TsOther == TsLine("other", "", 0, BadZ, BadZ, 0)

\* what a loader hands back: the exception that escaped it ("none" if it
\* returned), Exp1's tuple, and the dictionary of Exp2 and Exp3
TsResult(raised, start_time, end_time, total, ranges) ==
    [raised |-> raised, start_time |-> start_time, end_time |-> end_time,
     total_execution_time |-> total, ranges |-> ranges]

\* d[key] = value on a dictionary
DictSet(d, key, value) ==
    [x \in DOMAIN d \cup {key} |-> IF x = key THEN value ELSE d[x]]

\* ---- Exp1 read_timestamps
\* one line of the loop: start_time is assigned before end_time is parsed,
\* and a ValueError of either strptime is caught and logged
Exp1_ts_Line(st, line) ==
    LET afterTime ==
            IF line.k = "time"
            THEN IF ~strptime(line.start).ok THEN st
                 ELSE IF ~strptime(line.end).ok
                      THEN [st EXCEPT !.start_time = strptime(line.start).dt]
                      ELSE [st EXCEPT !.start_time = strptime(line.start).dt,
                                      !.end_time = strptime(line.end).dt]
            ELSE st
    IN  IF line.k = "exec"
        THEN [afterTime EXCEPT !.total_execution_time = line.secs]
        ELSE afterTime

RECURSIVE Exp1_ts_Loop(_, _)
Exp1_ts_Loop(st, lines) ==
    IF lines = <<>> THEN st
    ELSE Exp1_ts_Loop(Exp1_ts_Line(st, Head(lines)), Tail(lines))

\* a missing file: FileNotFoundError is caught, the three None are returned
read_timestamps(exists, lines) ==
    IF ~exists THEN TsResult("none", NoTime, NoTime, NoTime, <<>>)
    ELSE Exp1_ts_Loop(TsResult("none", NoTime, NoTime, NoTime, <<>>), lines)

\* variant: the label stays pending after a time line
Exp2_ts_Line_KeepsPhase(st, line) ==
    IF line.k = "label" THEN [st EXCEPT !.phase = line.label]
    ELSE IF line.k = "time" /\ st.phase # ""
    THEN IF fromisoformat(line.start).ok /\ fromisoformat(line.end).ok
         THEN [phase |-> st.phase,
               ranges |-> DictSet(st.ranges, st.phase,
                                  <<fromisoformat(line.start).dt,
                                    fromisoformat(line.end).dt>>)]
         ELSE st
    ELSE st

\* ---- Exp2 parse_timestamp_ranges
\* the loop's state: the phase ("" is None) and the dictionary
Exp2_ts_Line(st, line) ==
    IF line.k = "label" THEN [st EXCEPT !.phase = line.label]
    ELSE IF line.k = "time" /\ st.phase # ""
    THEN IF fromisoformat(line.start).ok /\ fromisoformat(line.end).ok
         THEN [phase |-> "",
               ranges |-> DictSet(st.ranges, st.phase,
                                  <<fromisoformat(line.start).dt,
                                    fromisoformat(line.end).dt>>)]
         ELSE [st EXCEPT !.phase = ""]
    ELSE st

RECURSIVE Exp2_ts_Loop(_, _)
Exp2_ts_Loop(st, lines) ==
    IF lines = <<>> THEN st
    ELSE Exp2_ts_Loop(Exp2_ts_Line(st, Head(lines)), Tail(lines))

\* open() is not guarded: a missing file raises FileNotFoundError
parse_timestamp_ranges(exists, lines) ==
    IF ~exists THEN TsResult("FileNotFoundError", NoTime, NoTime, NoTime, <<>>)
    ELSE TsResult("none", NoTime, NoTime, NoTime,
                  Exp2_ts_Loop([phase |-> "", ranges |-> <<>>], lines).ranges)

\* ---- Exp3 load_query_timestamps
\* the loop's state: the exception raised so far and the dictionary
Exp3_ts_Line(st, line) ==
    IF st.raised # "none" THEN st
    ELSE IF line.k = "query"
    THEN IF parse_datetime_from_string(line.start).ok
            /\ parse_datetime_from_string(line.end).ok
         THEN [st EXCEPT !.query_times =
                   DictSet(st.query_times, line.id,
                           <<parse_datetime_from_string(line.start).dt,
                             parse_datetime_from_string(line.end).dt>>)]
         ELSE [raised |-> "ValueError", query_times |-> <<>>]
    ELSE st

RECURSIVE Exp3_ts_Loop(_, _)
Exp3_ts_Loop(st, lines) ==
    IF lines = <<>> THEN st
    ELSE Exp3_ts_Loop(Exp3_ts_Line(st, Head(lines)), Tail(lines))

\* neither open() nor the parsing is guarded
load_query_timestamps(exists, lines) ==
    IF ~exists THEN TsResult("FileNotFoundError", NoTime, NoTime, NoTime, <<>>)
    ELSE LET st == Exp3_ts_Loop([raised |-> "none", query_times |-> <<>>], lines)
         IN  TsResult(st.raised, NoTime, NoTime, NoTime, st.query_times)

\* ------------------------------------------- inputs: timestamp files
TsAlphabet ==
    {TsTime(IsoZ(1), IsoZ(2)), TsTime(IsoZ(2), IsoZ(3)),
     TsTime(BadZ, IsoZ(2)), TsTime(IsoZ(3), BadZ), TsTime(IsoZ(3), IsoZ(1)),
     TsLabel("load"), TsLabel("query"),
     TsQuery(1, IsoZ(1), IsoZ(2)), TsQuery(2, IsoZ(2), IsoZ(3)),
     TsQuery(1, IsoZ(2), IsoZ(3)), TsQuery(1, IsoZ(3), BadZ),
     TsQuery(2, BadZ, IsoZ(2)), TsQuery(2, IsoZ(3), IsoZ(1)),
     TsExec(5), TsOther}

TsFiles == UNION {[1..n -> TsAlphabet] : n \in 0..MaxTsLines}

TsInit ==
    /\ tsExists \in BOOLEAN
    /\ tsLines \in (IF tsExists THEN TsFiles ELSE {<<>>})
    /\ tsFn = "none"
    /\ tsRet = <<>>
    /\ NotTsParked

Exp1ReadTimestamps ==
    /\ tsFn = "none"
    /\ tsFn' = "exp1"
    /\ tsRet' = read_timestamps(tsExists, tsLines)
    /\ UNCHANGED <<tsExists, tsLines, notTsVars>>

Exp2ParseRanges ==
    /\ tsFn = "none"
    /\ tsFn' = "exp2"
    /\ tsRet' = parse_timestamp_ranges(tsExists, tsLines)
    /\ UNCHANGED <<tsExists, tsLines, notTsVars>>

Exp3LoadQueryTimestamps ==
    /\ tsFn = "none"
    /\ tsFn' = "exp3"
    /\ tsRet' = load_query_timestamps(tsExists, tsLines)
    /\ UNCHANGED <<tsExists, tsLines, notTsVars>>

TsNext == Exp1ReadTimestamps \/ Exp2ParseRanges \/ Exp3LoadQueryTimestamps

SpecTs == TsInit /\ [][TsNext]_vars

\* --------------------------------- what the timestamp loaders should do
Max(S) == CHOOSE x \in S : \A y \in S : y <= x

\* the line is one the loader that ran reads an interval from
TsShaped(i) ==
    \/ tsFn \in {"exp1", "exp2"} /\ tsLines[i].k = "time"
    \/ tsFn = "exp3" /\ tsLines[i].k = "query"

\* both timestamp strings of the line parse
TsWellFormed(i) == tsLines[i].start.fmt = "iso" /\ tsLines[i].end.fmt = "iso"

TsInterval(i) == <<tsLines[i].start.t, tsLines[i].end.t>>

TsGoodLines == {i \in DOMAIN tsLines : TsShaped(i) /\ TsWellFormed(i)}
TsBadLines == {i \in DOMAIN tsLines : TsShaped(i) /\ ~TsWellFormed(i)}

\* Exp2: the label a time line stands under, "" if none does: the label line
\* that is the last label or time line before it
LabelOf(i) ==
    LET prev == {j \in 1..(i - 1) : tsLines[j].k \in {"label", "time"}}
    IN  IF prev = {} THEN ""
        ELSE IF tsLines[Max(prev)].k = "label" THEN tsLines[Max(prev)].label
        ELSE ""

\* the key under which the interval of a well-formed line is returned
KeyOf(i) ==
    IF tsFn = "exp3" THEN <<"query", tsLines[i].id>>
    ELSE IF tsFn = "exp2" THEN <<"phase", LabelOf(i)>>
    ELSE <<"only">>

\* the intervals the file's well-formed lines give: the last one of each key
GoodIntervals ==
    {<<KeyOf(i), TsInterval(i)>> :
        i \in {j \in TsGoodLines :
                 /\ KeyOf(j) # <<"phase", "">>
                 /\ \A h \in TsGoodLines : KeyOf(h) = KeyOf(j) => h <= j}}

\* the intervals the loader returned, under the same keys; Exp1's caller
\* takes a tuple with a None in it for no interval
ReturnedIntervals ==
    IF tsFn = "exp1"
    THEN IF tsRet.start_time = NoTime \/ tsRet.end_time = NoTime THEN {}
         ELSE {<< <<"only">>, <<tsRet.start_time, tsRet.end_time>> >>}
    ELSE {<< <<(IF tsFn = "exp3" THEN "query" ELSE "phase"), key>>, tsRet.ranges[key] >> :
             key \in DOMAIN tsRet.ranges}

\* C9: when the timestamp file does not exist, each of the three loaders
\* returns an empty result (no interval) and no exception escapes it.
C9_MissingFileEmpty ==
    (tsFn # "none" /\ ~tsExists) =>
        /\ tsRet.raised = "none"
        /\ ReturnedIntervals = {}

\* C10: a line whose start or end timestamp string cannot be parsed is
\* skipped: the loader does not raise, the line adds no interval, and the
\* intervals of the well-formed lines of the file are returned all the same.
C10_BadLineSkipped ==
    (tsFn # "none" /\ tsExists /\ TsBadLines # {}) =>
        /\ tsRet.raised = "none"
        /\ ReturnedIntervals = GoodIntervals

\* C11: every interval (start, end) a timestamp loader returns, and so hands
\* to the section extractor, has start <= end, whatever the file holds.
C11_StartNotAfterEnd ==
    (tsFn # "none" /\ tsRet.raised = "none") =>
        \A r \in ReturnedIntervals : r[2][1] <= r[2][2]

\* C19: Exp1 read_timestamps returns (None, None) or the start and the end
\* of one single line of the file, never values of two different lines.
C19_PairFromOneLine ==
    tsFn = "exp1" =>
        \/ tsRet.start_time = NoTime /\ tsRet.end_time = NoTime
        \/ \E i \in DOMAIN tsLines :
              /\ tsLines[i].k = "time" /\ TsWellFormed(i)
              /\ TsInterval(i) = <<tsRet.start_time, tsRet.end_time>>

\* ============================================ units of work and sections
\* Exp1 process_target_directory walks the Iteration<K> directories of a
\* target directory, Exp3 find_folders_and_process the queries of a
\* timestamp file; each computes one row per unit from one section of the
\* power log.  A row is [unit, phase, section]: the number K of the unit,
\* the number the row is labelled with, and the 1-based number of the
\* section its statistics are computed from (0: from no section, the list []).
MaxIterDir == 10
MaxBadTs == 1
MaxQuery == 3
MaxSections == 3

\* str(n), as its decimal digits
RECURSIVE Digits(_)
Digits(n) == IF n < 10 THEN <<n>> ELSE Digits(n \div 10) \o <<n % 10>>

\* a < b on strings of digits
RECURSIVE LexLess(_, _)
LexLess(a, b) ==
    IF a = <<>> THEN b # <<>>
    ELSE IF b = <<>> THEN FALSE
    ELSE IF Head(a) # Head(b) THEN Head(a) < Head(b)
    ELSE LexLess(Tail(a), Tail(b))

\* sorted(glob.glob('Iteration*')): the directories in the order of their names
RECURSIVE sorted(_)
sorted(dirs) ==
    IF dirs = {} THEN <<>>
    ELSE LET first == CHOOSE d \in dirs :
                         \A e \in dirs \ {d} : LexLess(Digits(d), Digits(e))
         IN  <<first>> \o sorted(dirs \ {first})

\* Exp1 process_iteration: None (no row) without an interval or without a
\* section of that index, else the row of section iteration_number
process_iteration(dir, iteration_number, bad) ==
    IF dir \in bad THEN <<>>
    ELSE IF iteration_number - 1 >= TOTAL_SECTIONS THEN <<>>
    ELSE <<[unit |-> dir, phase |-> iteration_number, section |-> iteration_number]>>

\* Exp1 process_target_directory: the loop over enumerate(iteration_dirs, start=1)
RECURSIVE Exp1_rows(_, _, _)
Exp1_rows(iteration_dirs, iter_idx, bad) ==
    IF iter_idx > Len(iteration_dirs) THEN <<>>
    ELSE process_iteration(iteration_dirs[iter_idx], iter_idx, bad)
         \o Exp1_rows(iteration_dirs, iter_idx + 1, bad)

process_target_directory(dirs, bad) == Exp1_rows(sorted(dirs), 1, bad)

\* Exp3: sections[section_index] for section_index = query_id - 1, as the
\* 1-based number of the section picked; Python counts a negative index
\* from the end of the list
Exp3_selected_section(query_id, n) ==
    LET section_index == query_id - 1
    IN  IF section_index < n
        THEN IF section_index >= 0 THEN section_index + 1 ELSE n + section_index + 1
        ELSE 0

\* Exp3 find_folders_and_process: the loop over query_times.items()
RECURSIVE Exp3_rows(_, _)
Exp3_rows(ids, n) ==
    IF ids = <<>> THEN <<>>
    ELSE <<[unit |-> Head(ids), phase |-> Head(ids),
            section |-> Exp3_selected_section(Head(ids), n)]>>
         \o Exp3_rows(Tail(ids), n)

\* the keys of a dictionary in insertion order: no key twice
QueryIdLists ==
    {ids \in UNION {[1..n -> 0..MaxQuery] : n \in 0..(MaxQuery + 1)} :
        \A i, j \in DOMAIN ids : i # j => ids[i] # ids[j]}

UnitInit ==
    /\ iterDirs \in SUBSET (1..MaxIterDir)
    /\ badTsDirs \in {b \in SUBSET iterDirs : Cardinality(b) <= MaxBadTs}
    /\ \/ iterDirs # {} /\ queryIds = <<>> /\ numSections = 1
       \/ iterDirs = {} /\ queryIds \in QueryIdLists /\ numSections \in 1..MaxSections
    /\ unitFn = "none"
    /\ unitRows = <<>>
    /\ NotUnitParked

Exp1ProcessTarget ==
    /\ unitFn = "none"
    /\ unitFn' = "exp1"
    /\ unitRows' = process_target_directory(iterDirs, badTsDirs)
    /\ UNCHANGED <<iterDirs, badTsDirs, queryIds, numSections>>
    /\ UNCHANGED notUnitVars

Exp3ProcessQueries ==
    /\ unitFn = "none"
    /\ unitFn' = "exp3"
    /\ unitRows' = Exp3_rows(queryIds, numSections)
    /\ UNCHANGED <<iterDirs, badTsDirs, queryIds, numSections>>
    /\ UNCHANGED notUnitVars

UnitNext == Exp1ProcessTarget \/ Exp3ProcessQueries

SpecUnits == UnitInit /\ [][UnitNext]_vars

\* how many sections the extractor of the driver that ran hands it
SectionsAvailable == IF unitFn = "exp1" THEN TOTAL_SECTIONS ELSE numSections

\* C6: the row of the unit of work numbered K (Exp1: directory Iteration<K>,
\* whatever other Iteration directories exist or are missing; Exp3: Query K)
\* is computed from section K of the power log, from no section when the log
\* has no section K.
C6_UnitKUsesSectionK ==
    unitFn # "none" =>
        \A i \in DOMAIN unitRows :
            unitRows[i].section =
                (IF unitRows[i].unit \in 1..SectionsAvailable
                 THEN unitRows[i].unit ELSE 0)

\* ============================================ execution-time analyzers
\* average_execution_time_analyzer.py of Exp1 and Exp2 read one execution
\* time from the ilo_power_timestamps.txt of each Iteration<N> folder, the
\* folders taken in the order of their numbers.  A file is
\*   [exists |-> BOOLEAN, lines |-> its lines]
\* with the lines of the timestamp loaders and one kind more:
\*   "texec"  Total Execution Time: <secs> seconds          (Exp1's pattern)
\*   "exec"   Total Query Execution Time: <secs> seconds    (Exp2's pattern)
MaxExecIters == 3

TsTotalExec(secs) == TsLine("texec", "", 0, BadZ, BadZ, secs)

NaN == [kind |-> "NaN", num |-> 0, den |-> 1]

\* the first line of the wanted kind, 0 if there is none
RECURSIVE FirstMatch(_, _)
FirstMatch(lines, kind) ==
    IF lines = <<>> THEN 0
    ELSE IF Head(lines).k = kind THEN Head(lines).secs
    ELSE FirstMatch(Tail(lines), kind)

\* Exp1 extract_execution_time: 0 for a missing file and for no match
extract_execution_time(file) ==
    IF ~file.exists THEN 0 ELSE FirstMatch(file.lines, "texec")

\* Exp2 extract_execution_time: 0 for a missing file and for no match
Exp2_extract_execution_time(file) ==
    IF ~file.exists THEN 0 ELSE FirstMatch(file.lines, "exec")

\* pd.Series(values).std(ddof): NaN when len(values) - ddof < 1
pd_std(values, ddof) ==
    IF Len(values) - ddof < 1 THEN NaN
    ELSE sqrt(Div(SumSqDev(values, Div(Num(sum(values), 1), Num(Len(values), 1))),
                  Num(Len(values) - ddof, 1)))

\* std / (n ** 0.5)
StdOverRootN(std, n) == IF std.kind = "NaN" THEN NaN ELSE SqrtDiv(std, sqrt(Num(n, 1)))

\* Exp1 process_iteration_folder: the loop appends every result, read or not
RECURSIVE Exp1_execution_times(_)
Exp1_execution_times(iterations) ==
    IF iterations = <<>> THEN <<>>
    ELSE <<extract_execution_time(Head(iterations))>>
         \o Exp1_execution_times(Tail(iterations))

process_iteration_folder(iterations) ==
    LET execution_times == Exp1_execution_times(iterations)
        total_time == sum(execution_times)
    IN  IF Len(execution_times) > 0
        THEN [average_time |-> Div(Num(total_time, 1), Num(Len(execution_times), 1)),
              std_dev_time |-> pd_std(execution_times, 1),
              std_error_time |-> StdOverRootN(pd_std(execution_times, 1), Len(execution_times)),
              iteration_count |-> Len(iterations),
              execution_times |-> execution_times]
        ELSE [average_time |-> Num(0, 1), std_dev_time |-> Num(0, 1),
              std_error_time |-> Num(0, 1), iteration_count |-> Len(iterations),
              execution_times |-> execution_times]

\* Exp2 process_query_phase: a missing file is skipped, a time is kept if > 0
RECURSIVE Exp2_execution_times(_)
Exp2_execution_times(iterations) ==
    IF iterations = <<>> THEN <<>>
    ELSE (IF ~Head(iterations).exists THEN <<>>
          ELSE IF Exp2_extract_execution_time(Head(iterations)) > 0
               THEN <<Exp2_extract_execution_time(Head(iterations))>>
               ELSE <<>>)
         \o Exp2_execution_times(Tail(iterations))

process_query_phase(iterations) ==
    LET execution_times == Exp2_execution_times(iterations)
    IN  IF execution_times # <<>>
        THEN [average_time |-> Div(Num(sum(execution_times), 1), Num(Len(execution_times), 1)),
              std_dev_time |-> pd_std(execution_times, 1),
              std_error_time |-> StdOverRootN(pd_std(execution_times, 1), Len(execution_times)),
              execution_times |-> execution_times]
        ELSE [average_time |-> Num(0, 1), std_dev_time |-> Num(0, 1),
              std_error_time |-> Num(0, 1), execution_times |-> execution_times]

\* ------------------------------------- inputs: the iterations' files
ExecFiles ==
    {[exists |-> FALSE, lines |-> <<>>],
     [exists |-> TRUE, lines |-> <<>>],
     [exists |-> TRUE, lines |-> <<TsTime(IsoZ(1), IsoZ(2))>>],
     [exists |-> TRUE, lines |-> <<TsTotalExec(5)>>],
     [exists |-> TRUE, lines |-> <<TsExec(5)>>],
     [exists |-> TRUE, lines |-> <<TsOther, TsTotalExec(7), TsTotalExec(5)>>],
     [exists |-> TRUE, lines |-> <<TsOther, TsExec(7), TsExec(5)>>],
     [exists |-> TRUE, lines |-> <<TsTotalExec(0)>>],
     [exists |-> TRUE, lines |-> <<TsExec(0)>>]}

ExecInit ==
    /\ execIters \in UNION {[1..n -> ExecFiles] : n \in 0..MaxExecIters}
    /\ execFn = "none"
    /\ execRet = <<>>
    /\ NotExecParked

Exp1ExecTimes ==
    /\ execFn = "none"
    /\ execFn' = "exp1"
    /\ execRet' = process_iteration_folder(execIters)
    /\ UNCHANGED <<execIters, notExecVars>>

Exp2ExecTimes ==
    /\ execFn = "none"
    /\ execFn' = "exp2"
    /\ execRet' = process_query_phase(execIters)
    /\ UNCHANGED <<execIters, notExecVars>>

ExecNext == Exp1ExecTimes \/ Exp2ExecTimes

SpecExec == ExecInit /\ [][ExecNext]_vars

\* ----------------------------- what the execution-time analyzers should do
\* the pattern of the analyzer that ran
ExecKind == IF execFn = "exp1" THEN "texec" ELSE "exec"

\* the iteration's file exists and holds a total-execution-time line
TimeWasRead(file) == file.exists /\ \E j \in DOMAIN file.lines : file.lines[j].k = ExecKind

\* the execution times that were read, in the order of the iterations
RECURSIVE ReadTimes(_)
ReadTimes(iterations) ==
    IF iterations = <<>> THEN <<>>
    ELSE (IF TimeWasRead(Head(iterations))
          THEN <<FirstMatch(Head(iterations).lines, ExecKind)>> ELSE <<>>)
         \o ReadTimes(Tail(iterations))

\* a is b with some elements left out
RECURSIVE IsSubSeq(_, _)
IsSubSeq(a, b) ==
    IF a = <<>> THEN TRUE
    ELSE IF b = <<>> THEN FALSE
    ELSE IF Head(a) = Head(b) THEN IsSubSeq(Tail(a), Tail(b))
    ELSE IsSubSeq(a, Tail(b))

\* C13: an iteration whose timestamp file is missing or holds no
\* total-execution-time line contributes no sample: the samples are execution
\* times that were read, and the mean is the mean of those samples.
C13_UnreadIterationNoSample ==
    execFn # "none" =>
        /\ IsSubSeq(execRet.execution_times, ReadTimes(execIters))
        /\ execRet.execution_times # <<>> =>
              execRet.average_time.num * Len(execRet.execution_times)
                  = sum(execRet.execution_times) * execRet.average_time.den

\* ======================================================= script runs
\* Six analysis scripts, each run on a base directory:
\*   "exp1_power"     Exp1 power_metrics_aggregator.py
\*   "exp3_power"     Exp3 power_metrics_aggregator.py
\*   "exp1_cpu"       Exp1 cpu_metrics_collector.py
\*   "exp1_pcm"       Exp1 pcm_analyzer.py
\*   "exp1_exectime"  Exp1 average_execution_time_analyzer.py
\*   "exp3_exectime"  Exp3 average_execution_time_analyzer.py
\* The base directory holds SF directories; an SF directory holds groups (an
\* F folder with its Csv or Parquet folder, or with a T folder).  A group is
\*   [len |-> n, data |-> BOOLEAN]
\* n the number of characters of "<F folder>_<sub folder>", data whether the
\* traversal of the group collects anything (for pcm_analyzer: whether it
\* holds a pcm_stats file at all).  A sheet name is modelled by its length.
\* A workbook is [sf, sheets, saved]: the SF directory it is opened for, the
\* sheet names passed to the writer, and whether closing it succeeded.
MaxSfDirs == 2
MaxGroups == 2
ShortNameLen == 8
LongNameLen == 32
SheetNameLimit == 31

Scripts ==
    {"exp1_power", "exp3_power", "exp1_cpu", "exp1_pcm", "exp1_exectime", "exp3_exectime"}

\* the engine named in the script's pd.ExcelWriter call, "default" if none is
WriterEngine(script) ==
    CASE script = "exp1_power" -> "openpyxl"
      [] script \in {"exp1_pcm", "exp1_exectime", "exp3_exectime"} -> "xlsxwriter"
      [] OTHER -> "default"

\* what the script does before its loop over the SF directories, given
\* whether the base path exists and how many SF directories it finds:
\* exit |-> TRUE with the status, or exit |-> FALSE to go on
BasePathCheck(script, exists, nSf) ==
    CASE script = "exp1_power" ->
            \* glob finds nothing under a missing path: "No SF* directories", return
            IF nSf = 0 THEN [exit |-> TRUE, status |-> 0, printed |-> TRUE]
            ELSE [exit |-> FALSE, status |-> 0, printed |-> FALSE]
      [] script \in {"exp3_power", "exp1_cpu"} ->
            \* sys.exit(1) for a missing path and for no SF folder
            IF ~exists \/ nSf = 0 THEN [exit |-> TRUE, status |-> 1, printed |-> TRUE]
            ELSE [exit |-> FALSE, status |-> 0, printed |-> FALSE]
      [] script = "exp1_pcm" ->
            \* print and return, for a missing path and for no pcm_stats file
            IF ~exists \/ nSf = 0 THEN [exit |-> TRUE, status |-> 0, printed |-> TRUE]
            ELSE [exit |-> FALSE, status |-> 0, printed |-> FALSE]
      [] script = "exp1_exectime" ->
            \* sys.exit(1) for a missing path; main returns for no SF folder
            IF ~exists THEN [exit |-> TRUE, status |-> 1, printed |-> TRUE]
            ELSE IF nSf = 0 THEN [exit |-> TRUE, status |-> 0, printed |-> TRUE]
            ELSE [exit |-> FALSE, status |-> 0, printed |-> FALSE]
      [] script = "exp3_exectime" ->
            \* sys.exit(1) for a missing path, sys.exit(0) for no SF folder
            IF ~exists THEN [exit |-> TRUE, status |-> 1, printed |-> TRUE]
            ELSE IF nSf = 0 THEN [exit |-> TRUE, status |-> 0, printed |-> TRUE]
            ELSE [exit |-> FALSE, status |-> 0, printed |-> FALSE]

\* name[:31]
Truncate(n) == IF n > SheetNameLimit THEN SheetNameLimit ELSE n

\* the sheet name the script makes for a group
SheetName(script, group) ==
    IF script \in {"exp1_cpu", "exp3_exectime"} THEN group.len
    ELSE Truncate(group.len)

\* the sheet names of the groups that collected data, in order
RECURSIVE SheetNames(_, _)
SheetNames(script, groups) ==
    IF groups = <<>> THEN <<>>
    ELSE (IF Head(groups).data THEN <<SheetName(script, Head(groups))>> ELSE <<>>)
         \o SheetNames(script, Tail(groups))

\* the script tests for collected data before it opens the writer
ChecksForData(script) ==
    script \in {"exp1_power", "exp1_pcm", "exp1_exectime", "exp3_exectime"}

\* the writer is opened inside a try that catches Exception
WriterInTry(script) == script \in {"exp1_power", "exp3_exectime"}

\* xlsxwriter refuses a sheet name of more than 31 characters: the names
\* passed up to and with the first such name
RECURSIVE UpToTooLong(_)
UpToTooLong(names) ==
    IF names = <<>> THEN <<>>
    ELSE IF Head(names) > SheetNameLimit THEN <<Head(names)>>
    ELSE <<Head(names)>> \o UpToTooLong(Tail(names))

\* One SF directory: the workbook opened for it (none: <<>>) and whether an
\* exception leaves the script.  openpyxl raises on closing a workbook
\* without a sheet, xlsxwriter writes it; xlsxwriter raises on a sheet name
\* that is too long, openpyxl takes it.
ProcessSf(script, engine, sf, groups) ==
    LET names == SheetNames(script, groups)
        tooLong == \E j \in DOMAIN names : names[j] > SheetNameLimit
    IN  IF names = <<>>
        THEN IF ChecksForData(script) THEN [books |-> <<>>, raised |-> FALSE]
             ELSE [books |-> <<[sf |-> sf, sheets |-> <<>>, saved |-> engine = "xlsxwriter"]>>,
                   raised |-> engine = "openpyxl" /\ ~WriterInTry(script)]
        ELSE IF engine = "xlsxwriter" /\ tooLong
             THEN [books |-> <<[sf |-> sf, sheets |-> UpToTooLong(names), saved |-> FALSE]>>,
                   raised |-> ~WriterInTry(script)]
             ELSE [books |-> <<[sf |-> sf, sheets |-> names, saved |-> TRUE]>>,
                   raised |-> FALSE]

\* --------------------------------------------- inputs: directory trees
Groups == {[len |-> n, data |-> d] : n \in {ShortNameLen, LongNameLen}, d \in BOOLEAN}
SfDirs == UNION {[1..n -> Groups] : n \in 0..MaxGroups}
Trees == UNION {[1..n -> SfDirs] : n \in 0..MaxSfDirs}

RunInit ==
    /\ runScript \in Scripts
    /\ runEngine \in (IF WriterEngine(runScript) = "default"
                      THEN {"openpyxl", "xlsxwriter"} ELSE {WriterEngine(runScript)})
    /\ runBaseExists \in BOOLEAN
    /\ runSfDirs \in (IF runBaseExists THEN Trees ELSE {<<>>})
    /\ runPc = "start" /\ runIdx = 0 /\ runExit = 0
    /\ runPrinted = FALSE /\ runBooks = <<>>
    /\ NotRunParked

\* the script starts: the test of the base path and the search for SF folders
RunStart ==
    /\ runPc = "start"
    /\ LET c == BasePathCheck(runScript, runBaseExists, Len(runSfDirs))
       IN  /\ runPrinted' = c.printed
           /\ runExit' = c.status
           /\ runPc' = IF c.exit THEN "exited" ELSE "loop"
           /\ runIdx' = IF c.exit THEN 0 ELSE 1
    /\ UNCHANGED <<runScript, runEngine, runBaseExists, runSfDirs, runBooks, notRunVars>>

\* one turn of the loop over the SF directories
RunSfDir ==
    /\ runPc = "loop"
    /\ runIdx <= Len(runSfDirs)
    /\ LET r == ProcessSf(runScript, runEngine, runIdx, runSfDirs[runIdx])
       IN  /\ runBooks' = runBooks \o r.books
           /\ runPc' = IF r.raised THEN "exited" ELSE "loop"
           /\ runExit' = IF r.raised THEN 1 ELSE runExit
           /\ runIdx' = IF r.raised THEN runIdx ELSE runIdx + 1
    /\ UNCHANGED <<runScript, runEngine, runBaseExists, runSfDirs, runPrinted, notRunVars>>

\* the loop is over: the script ends with status 0
RunEnd ==
    /\ runPc = "loop"
    /\ runIdx > Len(runSfDirs)
    /\ runPc' = "exited"
    /\ runExit' = 0
    /\ UNCHANGED <<runScript, runEngine, runBaseExists, runSfDirs, runIdx, runPrinted,
                   runBooks, notRunVars>>

RunNext == RunStart \/ RunSfDir \/ RunEnd

SpecRun == RunInit /\ [][RunNext]_vars

\* ------------------------------------------- what the scripts should do
\* the SF directories the loop is done with
SfDone == {i \in DOMAIN runSfDirs : runPc # "start" /\ (i < runIdx \/ (runPc = "exited" /\ i = runIdx))}

SfHasData(i) == \E j \in DOMAIN runSfDirs[i] : runSfDirs[i][j].data

\* C14: for an SF directory whose traversal collects no data for any group,
\* the script opens no workbook and goes on with the next directory.
C14_NoWorkbookWithoutData ==
    \A i \in SfDone : ~SfHasData(i) =>
        /\ \A b \in DOMAIN runBooks : runBooks[b].sf # i
        /\ ~(runPc = "exited" /\ runIdx = i)

\* C15: a script started with a base directory that does not exist prints a
\* diagnostic and ends with a non-zero exit status, having processed nothing.
C15_MissingBaseExitsNonZero ==
    (~runBaseExists /\ runPc = "exited") =>
        /\ runPrinted
        /\ runExit # 0
        /\ runBooks = <<>>

\* C16: every sheet name passed to the spreadsheet writer has at most 31
\* characters.
C16_SheetNamesWithinLimit ==
    \A b \in DOMAIN runBooks : \A j \in DOMAIN runBooks[b].sheets :
        runBooks[b].sheets[j] <= SheetNameLimit

\* ================================== Exp1 per-directory table of metrics
\* process_target_directory of the Exp1 aggregator, with the rows' contents.
\* An Iteration directory is [ts, current]: whether read_timestamps gives a
\* start and an end for it, and the section extract_section_values yields
\* for its window at the iteration's index, a record of the three lists
\* CpuWatts, DimmWatts, Average.  tblPower is "missing" (no
\* ilo_power_all.txt), "unreadable" (extract_section_values returns None) or
\* "ok".  The idle log is [exists, values]: values is what the idle reader
\* collects from an existing file.
\* A row is [Phase, stats]; Phase is [kind, n], n the iteration number
\* (0 for Aggregate and Idle).
MaxTblIters == 3

Section(c, d, a) == [CpuWatts |-> c, DimmWatts |-> d, Average |-> a]

\* compute_statistics: the nine statistics of the three sample lists
compute_statistics(cpu_watts, dimm_watts, average_power) ==
    LET cpu_stats == calc_stats(cpu_watts)
        dimm_stats == calc_stats(dimm_watts)
        power_stats == calc_stats(average_power)
    IN  [AverageCpuWatts |-> cpu_stats.Average,
         CpuWattsSampleStdDev |-> cpu_stats.StdDev,
         CpuWattsStdError |-> cpu_stats.StdError,
         AverageDimmWatts |-> dimm_stats.Average,
         DimmWattsSampleStdDev |-> dimm_stats.StdDev,
         DimmWattsStdError |-> dimm_stats.StdError,
         AveragePower |-> power_stats.Average,
         PowerSampleStdDev |-> power_stats.StdDev,
         PowerStdError |-> power_stats.StdError]

PhaseIteration(n) == [kind |-> "Iteration", n |-> n]
PhaseAggregate == [kind |-> "Aggregate", n |-> 0]
PhaseIdle == [kind |-> "Idle", n |-> 0]

\* process_iteration with its result: <<>> for None, else one record with
\* the row and the three raw lists
process_iteration_result(power, iter_dir, iteration_number) ==
    IF ~iter_dir.ts THEN <<>>
    ELSE IF power = "unreadable" THEN <<>>
    ELSE IF iteration_number - 1 >= TOTAL_SECTIONS THEN <<>>
    ELSE LET current_section == iter_dir.current
         IN  <<[Phase |-> PhaseIteration(iteration_number),
                stats |-> compute_statistics(current_section.CpuWatts,
                                             current_section.DimmWatts,
                                             current_section.Average),
                CpuWatts |-> current_section.CpuWatts,
                DimmWatts |-> current_section.DimmWatts,
                AveragePowerValues |-> current_section.Average]>>

\* variant: the list is replaced, not extended
extend_Replaces(all, values) == values

\* list.extend
extend(all, values) == all \o values

\* the loop over enumerate(iteration_dirs, start=1); acc holds
\* iteration_metrics_list and the three all_* lists
RECURSIVE IterationLoop(_, _, _, _)
IterationLoop(power, iteration_dirs, iter_idx, acc) ==
    IF iter_idx > Len(iteration_dirs) THEN acc
    ELSE LET result == process_iteration_result(power, iteration_dirs[iter_idx], iter_idx)
             next == IF result # <<>>
                     THEN [iteration_metrics_list |->
                               Append(acc.iteration_metrics_list,
                                      [Phase |-> result[1].Phase, stats |-> result[1].stats]),
                           all_cpu_watts |-> extend(acc.all_cpu_watts, result[1].CpuWatts),
                           all_dimm_watts |-> extend(acc.all_dimm_watts, result[1].DimmWatts),
                           all_average_power |->
                               extend(acc.all_average_power, result[1].AveragePowerValues)]
                     ELSE acc
         IN  IterationLoop(power, iteration_dirs, iter_idx + 1, next)

\* get_last_X_idle_values on the idle log: empty lists for a missing file
last_X_idle(idle) ==
    IF idle.exists THEN idle.values ELSE Section(<<>>, <<>>, <<>>)

\* variant: no Idle row for a missing idle file
IdleRows_OnlyIfPresent(idle) ==
    IF idle.exists
    THEN <<[Phase |-> PhaseIdle,
            stats |-> compute_statistics(idle.values.CpuWatts, idle.values.DimmWatts,
                                         idle.values.Average)]>>
    ELSE <<>>

\* the Idle row: compute_statistics returns a non-empty dict for any lists,
\* so 'if idle_metrics' holds
IdleRows(idle) ==
    LET v == last_X_idle(idle)
    IN  <<[Phase |-> PhaseIdle,
           stats |-> compute_statistics(v.CpuWatts, v.DimmWatts, v.Average)]>>

\* the end of process_target_directory, from the test of
\* iteration_metrics_list on: table |-> FALSE is None
TableOf(acc, idle) ==
    IF acc.iteration_metrics_list = <<>> THEN [table |-> FALSE, rows |-> <<>>]
    ELSE [table |-> TRUE,
          rows |-> acc.iteration_metrics_list
                   \o <<[Phase |-> PhaseAggregate,
                         stats |-> compute_statistics(acc.all_cpu_watts,
                                                      acc.all_dimm_watts,
                                                      acc.all_average_power)]>>
                   \o IdleRows(idle)]

\* process_target_directory, rows and all
process_target_directory_table(power, iteration_dirs, idle) ==
    IF power = "missing" THEN [table |-> FALSE, rows |-> <<>>]
    ELSE CHOOSE t \in {TableOf(acc, idle) :
                         acc \in {IterationLoop(power, iteration_dirs, 1,
                                     [iteration_metrics_list |-> <<>>, all_cpu_watts |-> <<>>,
                                      all_dimm_watts |-> <<>>, all_average_power |-> <<>>])}} :
                    TRUE

\* ------------------------------------------------ inputs: directories
\* sections: empty, one entry, two entries, and two entries of which the
\* second has no DimmWatts
SectionChoices ==
    {Section(<<>>, <<>>, <<>>), Section(<<1>>, <<2>>, <<3>>),
     Section(<<2, 4>>, <<1, 3>>, <<3, 4>>), Section(<<4, 0>>, <<2>>, <<3, 1>>)}

IterationDirs == [ts : BOOLEAN, current : SectionChoices]

IdleLogs ==
    {[exists |-> FALSE, values |-> Section(<<>>, <<>>, <<>>)],
     [exists |-> TRUE, values |-> Section(<<>>, <<>>, <<>>)],
     [exists |-> TRUE, values |-> Section(<<1, 1>>, <<0, 2>>, <<2, 3>>)]}

TblInit ==
    /\ tblPower \in {"missing", "unreadable", "ok"}
    /\ tblIters \in UNION {[1..n -> IterationDirs] : n \in 0..MaxTblIters}
    /\ tblIdle \in IdleLogs
    /\ tblDone = FALSE
    /\ tblRet = [table |-> FALSE, rows |-> <<>>]
    /\ NotTblParked

Exp1ProcessTargetTable ==
    /\ ~tblDone
    /\ tblRet' = process_target_directory_table(tblPower, tblIters, tblIdle)
    /\ tblDone' = TRUE
    /\ UNCHANGED <<tblPower, tblIters, tblIdle, notTblVars>>

TblNext == Exp1ProcessTargetTable

SpecTbl == TblInit /\ [][TblNext]_vars

\* --------------------------------------------- what the table should be
\* the iterations that are processed to a row: timestamps read, power log
\* read, and a section at the iteration's index
Processed ==
    {k \in DOMAIN tblIters : tblPower = "ok" /\ tblIters[k].ts /\ k <= TOTAL_SECTIONS}

\* the iterations whose row is in the returned table
RowIterations ==
    {tblRet.rows[j].Phase.n : j \in {i \in DOMAIN tblRet.rows : tblRet.rows[i].Phase.kind = "Iteration"}}

\* the number of elements of Processed below k, plus one
RankIn(S, k) == Cardinality({i \in S : i <= k})

\* C17: a returned table holds one row per processed iteration in processing
\* order, then exactly one Aggregate row, then exactly one Idle row, also
\* when the idle file is missing; with no processed iteration no table is
\* returned.
C17_RowOrder ==
    tblDone =>
        /\ tblRet.table = (Processed # {})
        /\ tblRet.table =>
            LET n == Cardinality(Processed)
            IN  /\ Len(tblRet.rows) = n + 2
                /\ \A k \in Processed :
                      tblRet.rows[RankIn(Processed, k)].Phase = PhaseIteration(k)
                /\ tblRet.rows[n + 1].Phase = PhaseAggregate
                /\ tblRet.rows[n + 2].Phase = PhaseIdle

C17_Witness ==
    /\ tblDone /\ tblRet.table
    /\ ~tblIdle.exists
    /\ Cardinality(Processed) >= 2
    /\ \E k \in DOMAIN tblIters : k \notin Processed /\ k < Len(tblIters)

\* the concatenation, in iteration order, of one raw list of the iterations
\* of S up to k
RECURSIVE ConcatOf(_, _, _)
ConcatOf(S, k, key) ==
    IF k = 0 THEN <<>>
    ELSE ConcatOf(S, k - 1, key) \o (IF k \in S THEN tblIters[k].current[key] ELSE <<>>)

AggregateRows == {j \in DOMAIN tblRet.rows : tblRet.rows[j].Phase = PhaseAggregate}

\* C18: the Aggregate row's statistics are those of the concatenation, in
\* iteration order, of the sample lists of the iterations that have a row;
\* an iteration skipped for missing timestamps or an unreadable power log
\* has no row and adds no sample.
C18_AggregateOverRowIterations ==
    (tblDone /\ tblRet.table) =>
        /\ \A j \in AggregateRows :
              tblRet.rows[j].stats =
                  compute_statistics(ConcatOf(RowIterations, Len(tblIters), "CpuWatts"),
                                     ConcatOf(RowIterations, Len(tblIters), "DimmWatts"),
                                     ConcatOf(RowIterations, Len(tblIters), "Average"))
        /\ AggregateRows # {}
        /\ \A k \in DOMAIN tblIters :
              (~tblIters[k].ts \/ tblPower = "unreadable") => k \notin RowIterations

C18_Witness ==
    /\ tblDone /\ tblRet.table
    /\ Cardinality(RowIterations) >= 2
    /\ \E k \in DOMAIN tblIters :
          /\ ~tblIters[k].ts /\ tblIters[k].current.CpuWatts # <<>>
          /\ k < Len(tblIters)
    /\ \A k \in RowIterations : tblIters[k].current.CpuWatts # <<>>

\* ============================================ iostat device-line filter
\* save_filtered_sda_sdb of filter_io_device_logs.py: "exp12" is the
\* function of Experiments 1 and 2 (the same lines 5-50 but for one unused
\* parameter), "exp3" the loop of Experiment 3 over one matched file.
\* An input line is [sda, sdb, running, fields]: whether it contains "sda",
\* whether it contains "sdb", whether it starts with "Running", and what
\* line.split()[2:] holds, each field "zero" (a number equal to 0),
\* "nonzero" (another number) or "text" (float() raises ValueError).
\* A file written is a sequence of items [kind, id]: "iter" (the iteration
\* name), "blank" (an empty line), "custom" (Exp3's 'Running TPC-H Query'
\* line), "header" (the 'Device ...' line) and "line" (input line number id).
MaxIoLines == 4

Item(kind, id) == [kind |-> kind, id |-> id]

\* all(float(val) == 0 for val in values if is_float(val))
all_zero(values) == \A j \in DOMAIN values : values[j] = "text" \/ values[j] = "zero"

get_device_header == <<Item("header", 0)>>

\* one turn of 'for line in file' (lines 20-43) on line number i; st holds
\* buffer, skip_next_sda, skip_next_sdb, device_header_written
FilterLine(st, line, i, skip_zeros) ==
    IF line.sda /\ st.skip_next_sda
    THEN [st EXCEPT !.skip_next_sda = FALSE]
    ELSE LET hdr == line.sda /\ ~st.device_header_written
             s1 == IF hdr
                   THEN [st EXCEPT !.buffer = st.buffer \o get_device_header,
                                   !.device_header_written = TRUE]
                   ELSE st
         IN  IF line.sdb /\ s1.skip_next_sdb
             THEN [s1 EXCEPT !.skip_next_sdb = FALSE]
             ELSE IF skip_zeros /\ all_zero(line.fields) THEN s1
             ELSE IF line.sda \/ line.sdb
                  THEN [s1 EXCEPT !.buffer = s1.buffer \o <<Item("line", i)>>]
                  ELSE s1

\* Exp3, lines 83-114: a line starting with "Running" sets the three flags
\* again and is not looked at further
Exp3_FilterLine(st, line, i, skip_zeros) ==
    IF line.running
    THEN [st EXCEPT !.skip_next_sda = TRUE, !.skip_next_sdb = TRUE,
                    !.device_header_written = FALSE]
    ELSE FilterLine(st, line, i, skip_zeros)

RECURSIVE FilterLoop(_, _, _, _, _)
FilterLoop(fn, lines, i, st, skip_zeros) ==
    IF i > Len(lines) THEN st
    ELSE FilterLoop(fn, lines, i + 1,
                    CHOOSE t \in {IF fn = "exp3"
                                  THEN Exp3_FilterLine(s0, lines[i], i, skip_zeros)
                                  ELSE FilterLine(s0, lines[i], i, skip_zeros) : s0 \in {st}} : TRUE,
                    skip_zeros)

FilterStart(buffer) ==
    [buffer |-> buffer, skip_next_sda |-> TRUE, skip_next_sdb |-> TRUE,
     device_header_written |-> FALSE]

\* variant: no test of os.path.exists, a missing input read as an empty one
save_filtered_sda_sdb_NoExistsTest(before, exists, lines, skip_zeros, write_iteration) ==
    before
    \o (IF write_iteration THEN <<Item("iter", 0), Item("blank", 0)>> ELSE <<>>)
    \o FilterLoop("exp12", IF exists THEN lines ELSE <<>>, 1, FilterStart(<<>>), skip_zeros).buffer
    \o <<Item("blank", 0)>>

\* Exp1 and Exp2 save_filtered_sda_sdb: the output file after the call,
\* opened with 'a'
save_filtered_sda_sdb(before, exists, lines, skip_zeros, write_iteration) ==
    IF ~exists THEN before
    ELSE before
         \o (IF write_iteration THEN <<Item("iter", 0), Item("blank", 0)>> ELSE <<>>)
         \o FilterLoop("exp12", lines, 1, FilterStart(<<>>), skip_zeros).buffer
         \o <<Item("blank", 0)>>

\* Exp3 save_filtered_sda_sdb on one file whose name matches: the output
\* file is opened with 'w' and gets the file's buffer and a newline
Exp3_save_filtered_sda_sdb(lines, skip_zeros) ==
    FilterLoop("exp3", lines, 1, FilterStart(<<Item("custom", 0)>>), skip_zeros).buffer
    \o <<Item("blank", 0)>>

\* --------------------------------------------------- inputs: log files
IoLineKinds ==
    {[sda |-> TRUE, sdb |-> FALSE, running |-> FALSE, fields |-> <<"zero", "nonzero">>],
     [sda |-> TRUE, sdb |-> FALSE, running |-> FALSE, fields |-> <<"zero", "zero">>],
     [sda |-> FALSE, sdb |-> TRUE, running |-> FALSE, fields |-> <<"text", "nonzero">>],
     [sda |-> FALSE, sdb |-> TRUE, running |-> FALSE, fields |-> <<"zero", "zero">>],
     [sda |-> TRUE, sdb |-> TRUE, running |-> FALSE, fields |-> <<"nonzero">>],
     [sda |-> FALSE, sdb |-> FALSE, running |-> FALSE, fields |-> <<>>],
     [sda |-> FALSE, sdb |-> FALSE, running |-> TRUE, fields |-> <<"text">>]}

IoFilesOf(fn) ==
    UNION {[1..n -> {l \in IoLineKinds : fn = "exp3" \/ ~l.running}] : n \in 0..MaxIoLines}

\* what an earlier call may have left in the output file
IoEarlier == {<<>>, <<Item("iter", 0), Item("blank", 0), Item("blank", 0)>>}

IoInit ==
    /\ ioFn \in {"exp12", "exp3"}
    /\ ioExists \in (IF ioFn = "exp3" THEN {TRUE} ELSE BOOLEAN)
    /\ ioLines \in (IF ioExists THEN IoFilesOf(ioFn) ELSE {<<>>})
    /\ ioSkipZeros \in BOOLEAN
    /\ ioWriteIter \in (IF ioFn = "exp3" THEN {FALSE} ELSE BOOLEAN)
    /\ ioBefore \in IoEarlier
    /\ ioOut = ioBefore
    /\ ioDone = FALSE
    /\ NotIoParked

Exp12SaveFiltered ==
    /\ ioFn = "exp12" /\ ~ioDone
    /\ ioOut' = save_filtered_sda_sdb(ioBefore, ioExists, ioLines, ioSkipZeros, ioWriteIter)
    /\ ioDone' = TRUE
    /\ UNCHANGED <<ioFn, ioExists, ioLines, ioSkipZeros, ioWriteIter, ioBefore, notIoVars>>

Exp3SaveFiltered ==
    /\ ioFn = "exp3" /\ ~ioDone
    /\ ioOut' = Exp3_save_filtered_sda_sdb(ioLines, ioSkipZeros)
    /\ ioDone' = TRUE
    /\ UNCHANGED <<ioFn, ioExists, ioLines, ioSkipZeros, ioWriteIter, ioBefore, notIoVars>>

IoNext == Exp12SaveFiltered \/ Exp3SaveFiltered

SpecIo == IoInit /\ [][IoNext]_vars

\* ------------------------------------------ what the filter should write
\* the text the call wrote: the output file without what it held before
\* (Exp3 opens the file anew)
IoWritten ==
    IF ioFn = "exp3" THEN ioOut
    ELSE SubSeq(ioOut, Len(ioBefore) + 1, Len(ioOut))

\* the input line numbers of the device lines written, in output order
RECURSIVE LineIds(_)
LineIds(items) ==
    IF items = <<>> THEN <<>>
    ELSE (IF Head(items).kind = "line" THEN <<Head(items).id>> ELSE <<>>) \o LineIds(Tail(items))

SdaLines == {i \in DOMAIN ioLines : ioLines[i].sda}
SdbLines == {i \in DOMAIN ioLines : ioLines[i].sdb}
FirstOf(S) == {x \in S : \A y \in S : x <= y}

\* the lines the claim keeps
IoKept ==
    {i \in (SdaLines \cup SdbLines) \ (FirstOf(SdaLines) \cup FirstOf(SdbLines)) :
        ~(ioSkipZeros /\ all_zero(ioLines[i].fields))}

\* C21: the device lines written by Exp1/Exp2 save_filtered_sda_sdb are, in
\* input order, the lines containing 'sda' or 'sdb' but for the first line
\* containing 'sda', the first line containing 'sdb' and, with skip_zeros,
\* the lines whose numeric fields after the second column are all zero.
C21_DeviceLinesWritten ==
    (ioDone /\ ioFn = "exp12" /\ ioExists) => LineIds(IoWritten) = AscSeq(IoKept)

HeaderAt == {j \in DOMAIN IoWritten : IoWritten[j].kind = "header"}
LineAt == {j \in DOMAIN IoWritten : IoWritten[j].kind = "line"}

\* C22: in the text written for one input file the 'Device ...' header
\* occurs at most once, only if a device line is written, and before every
\* device line written.
C22_HeaderOnceBeforeLines ==
    (ioDone /\ ioExists) =>
        /\ Cardinality(HeaderAt) <= 1
        /\ HeaderAt # {} => LineAt # {}
        /\ \A h \in HeaderAt : \A j \in LineAt : h < j

IterationHeader == IF ioWriteIter THEN <<Item("iter", 0), Item("blank", 0)>> ELSE <<>>

\* C23: with a missing input Exp1/Exp2 save_filtered_sda_sdb leaves the
\* output file as it was; with an existing input it appends the iteration
\* header (when write_iteration is set) first and a blank line last.
C23_MissingInputWritesNothing ==
    (ioDone /\ ioFn = "exp12") =>
        /\ ~ioExists => ioOut = ioBefore
        /\ ioExists =>
              /\ Len(ioOut) >= Len(ioBefore) + Len(IterationHeader) + 1
              /\ SubSeq(ioOut, 1, Len(ioBefore)) = ioBefore
              /\ SubSeq(IoWritten, 1, Len(IterationHeader)) = IterationHeader
              /\ IoWritten[Len(IoWritten)] = Item("blank", 0)

C23_Witness ==
    /\ ioDone /\ ioFn = "exp12" /\ ~ioExists
    /\ ioWriteIter /\ ioBefore # <<>> /\ ioOut = ioBefore

\* ========================================= Exp3 concatenation of logs
\* "strip": strip_unwanted_sections of concat_iostat_files.py.  An input
\* line is TRUE if it contains 'avg-cpu:', FALSE if not; the lines returned
\* are items: Item("Iteration", n) and Item("line", i), i the line's number.
\* "cpu": concatenate_cpu_load_files of concat_cpu_load_files.py.  catFiles
\* is a function from the iteration numbers of the files present to their
\* lines, each line "Linux" (starts with "Linux"), "blank" or "all" (a
\* record of 'all' CPUs); the aggregated file is a sequence of items
\* [kind, id], kind the line's kind and id the iteration of its file
\* (Item("newline", n) for the '\n' written after file n).
MaxStripLines == 5
MaxStripIter == 2
MaxCpuIters == 3

\* variant: skipping starts again once the count has passed 2
StripLine_SkipsAgain(st, line, i) ==
    LET avg_cpu_count == IF line THEN st.avg_cpu_count + 1 ELSE st.avg_cpu_count
        inside_skip_section == avg_cpu_count # 2
    IN  [avg_cpu_count |-> avg_cpu_count,
         inside_skip_section |-> inside_skip_section,
         output_lines |-> IF ~inside_skip_section
                          THEN Append(st.output_lines, Item("line", i))
                          ELSE st.output_lines]

\* one turn of 'for line in lines' (lines 15-26)
StripLine(st, line, i) ==
    LET avg_cpu_count == IF line THEN st.avg_cpu_count + 1 ELSE st.avg_cpu_count
        inside_skip_section == IF avg_cpu_count = 2 THEN FALSE ELSE st.inside_skip_section
    IN  [avg_cpu_count |-> avg_cpu_count,
         inside_skip_section |-> inside_skip_section,
         output_lines |-> IF ~inside_skip_section
                          THEN Append(st.output_lines, Item("line", i))
                          ELSE st.output_lines]

RECURSIVE StripLoop(_, _, _)
StripLoop(lines, i, st) ==
    IF i > Len(lines) THEN st
    ELSE StripLoop(lines, i + 1, CHOOSE t \in {StripLine(s0, lines[i], i) : s0 \in {st}} : TRUE)

strip_unwanted_sections(lines, iteration_number) ==
    StripLoop(lines, 1,
              [avg_cpu_count |-> 0, inside_skip_section |-> TRUE,
               output_lines |-> <<Item("Iteration", iteration_number)>>]).output_lines

\* sort_by_iteration: re.search(r'_it(\d+)$', file_name) is anchored at the
\* end of the name, which for the files globbed ends in '.txt': no match, 0
\* (has_txt: the name ends in '.txt').  No code calls it.
sort_by_iteration(iteration, has_txt) == IF has_txt THEN 0 ELSE iteration

\* skip_linux_line_and_blanks, on the lines from number i on
RECURSIVE skip_linux_line_and_blanks(_, _)
skip_linux_line_and_blanks(lines, i) ==
    IF i > Len(lines) THEN <<>>
    ELSE IF lines[i] \in {"Linux", "blank"} THEN skip_linux_line_and_blanks(lines, i + 1)
    ELSE SubSeq(lines, i, Len(lines))

ItemsOf(lines, n) == [j \in DOMAIN lines |-> Item(lines[j], n)]

\* the loop 'for file in run_files' (lines 57-71) from position k of
\* run_files on
RECURSIVE CpuLoop(_, _, _, _)
CpuLoop(files, run_files, k, header_written) ==
    IF k > Len(run_files) THEN <<>>
    ELSE LET n == run_files[k]
             lines == files[n]
         IN  IF lines = <<>> THEN CpuLoop(files, run_files, k + 1, header_written)
             ELSE (IF ~header_written THEN ItemsOf(lines, n)
                   ELSE ItemsOf(skip_linux_line_and_blanks(lines, 1), n))
                  \o <<Item("newline", n)>>
                  \o CpuLoop(files, run_files, k + 1, TRUE)

\* concatenate_cpu_load_files for the files as glob.glob lists them
concatenate_cpu_load_files(files, run_files) ==
    IF run_files = <<>> THEN <<>> ELSE CpuLoop(files, run_files, 1, FALSE)

\* glob.glob returns the matching files in the order of the directory
\* listing, which is any order
GlobOrders(S) ==
    {o \in [1..Cardinality(S) -> S] : \A a, b \in DOMAIN o : a # b => o[a] # o[b]}

\* --------------------------------------------------------- inputs
StripInputs == UNION {[1..n -> BOOLEAN] : n \in 0..MaxStripLines}

CpuLoadFile == {<<>>, <<"Linux", "blank", "all", "all">>, <<"Linux", "blank", "all">>}

CpuLoadFiles == UNION {[S -> CpuLoadFile] : S \in SUBSET (1..MaxCpuIters)}

CatInit ==
    /\ catFn \in {"strip", "cpu"}
    /\ catLines \in (IF catFn = "strip" THEN StripInputs ELSE {<<>>})
    /\ catIter \in (IF catFn = "strip" THEN 1..MaxStripIter ELSE {0})
    /\ catFiles \in (IF catFn = "cpu" THEN CpuLoadFiles ELSE {<<>>})
    /\ catOut = <<>>
    /\ catDone = FALSE
    /\ NotCatParked

StripUnwantedSections ==
    /\ catFn = "strip" /\ ~catDone
    /\ catOut' = strip_unwanted_sections(catLines, catIter)
    /\ catDone' = TRUE
    /\ UNCHANGED <<catFn, catLines, catIter, catFiles, notCatVars>>

ConcatenateCpuLoadFiles ==
    /\ catFn = "cpu" /\ ~catDone
    /\ \E run_files \in GlobOrders(DOMAIN catFiles) :
          catOut' = concatenate_cpu_load_files(catFiles, run_files)
    /\ catDone' = TRUE
    /\ UNCHANGED <<catFn, catLines, catIter, catFiles, notCatVars>>

CatNext == StripUnwantedSections \/ ConcatenateCpuLoadFiles

SpecCat == CatInit /\ [][CatNext]_vars

\* ------------------------------------------------ what is to be written
AvgCpuAt == {i \in DOMAIN catLines : catLines[i]}

\* the number of the second line containing 'avg-cpu:', if any
SecondAvgCpu == {i \in AvgCpuAt : Cardinality({j \in AvgCpuAt : j < i}) = 1}

C25_AscendingIterations ==
    (catDone /\ catFn = "cpu") =>
        \A a, b \in DOMAIN catOut : a < b => catOut[a].id <= catOut[b].id

\* ================================================ pcm_analyzer, one run
\* main of pcm_analyzer.py from aggregate_throughput on, for a base path
\* that holds pcm_stats files.  A group is [sf, throughputs]: its scale
\* factor folder and the throughput values its files yield, in file order
\* (<<>>: the files exist and none yields a value).  Groups are in the
\* order of their first file, the order of the dicts.
MaxPcmGroups == 3
MaxPcmSf == 2

\* max(throughputs), throughputs not empty
RECURSIVE max(_)
max(throughputs) ==
    IF Len(throughputs) = 1 THEN throughputs[1]
    ELSE LET rest == max(Tail(throughputs))
         IN  IF Head(throughputs) >= rest THEN Head(throughputs) ELSE rest

\* lines 108-125: the entry of sf_averages for one group
GroupAverages(group) ==
    IF group.throughputs # <<>>
    THEN [sf |-> group.sf, throughputs |-> group.throughputs,
          average |-> Div(Num(sum(group.throughputs), 1), Num(Len(group.throughputs), 1)),
          max |-> Num(max(group.throughputs), 1)]
    ELSE [sf |-> group.sf, throughputs |-> <<>>, average |-> None, max |-> None]

aggregate_throughput(groups) == [g \in DOMAIN groups |-> GroupAverages(groups[g])]

\* f"{value:.2f}": None has no such format, TypeError
FormatRaises(value) == value = None

\* print_summary: the number of groups printed in full before the loop ends
\* or a format raises
RECURSIVE print_summary(_, _)
print_summary(sf_averages, g) ==
    IF g > Len(sf_averages) THEN [printed |-> g - 1, raised |-> FALSE]
    ELSE IF FormatRaises(sf_averages[g].average) \/ FormatRaises(sf_averages[g].max)
         THEN [printed |-> g - 1, raised |-> TRUE]
         ELSE print_summary(sf_averages, g + 1)

\* save_to_excel: one workbook per scale factor of sf_averages; a cell of
\* None is written as an empty cell
save_to_excel(sf_averages) == {sf_averages[g].sf : g \in DOMAIN sf_averages}

\* ---------------------------------------------------------- inputs
PcmThroughputs == {<<>>, <<2>>, <<1, 3>>}

PcmGroups ==
    UNION {[1..n -> [sf : 1..MaxPcmSf, throughputs : PcmThroughputs]] : n \in 1..MaxPcmGroups}

PcmInit ==
    /\ pcmGroups \in PcmGroups
    /\ pcmPc = "aggregate"
    /\ pcmAverages = <<>>
    /\ pcmSummary = 0
    /\ pcmBooks = {}
    /\ pcmExit = 0
    /\ NotPcmParked

PcmAggregate ==
    /\ pcmPc = "aggregate"
    /\ pcmAverages' = aggregate_throughput(pcmGroups)
    /\ pcmPc' = "summary"
    /\ UNCHANGED <<pcmGroups, pcmSummary, pcmBooks, pcmExit, notPcmVars>>

\* main has no try: an exception of print_summary ends the run
PcmPrintSummary ==
    /\ pcmPc = "summary"
    /\ LET r == print_summary(pcmAverages, 1)
       IN  /\ pcmSummary' = r.printed
           /\ pcmPc' = IF r.raised THEN "exited" ELSE "save"
           /\ pcmExit' = IF r.raised THEN 1 ELSE 0
    /\ UNCHANGED <<pcmGroups, pcmAverages, pcmBooks, notPcmVars>>

PcmSaveToExcel ==
    /\ pcmPc = "save"
    /\ pcmBooks' = save_to_excel(pcmAverages)
    /\ pcmPc' = "exited"
    /\ UNCHANGED <<pcmGroups, pcmAverages, pcmSummary, pcmExit, notPcmVars>>

PcmNext == PcmAggregate \/ PcmPrintSummary \/ PcmSaveToExcel

SpecPcm == PcmInit /\ [][PcmNext]_vars

\* C26: a group whose pcm_stats files yield no throughput value is recorded
\* with an undefined average and maximum, and the run completes: every
\* group is printed in the summary and the workbook of every scale-factor
\* folder is written, with no exception.
C26_EmptyGroupRunCompletes ==
    (pcmPc = "exited" /\ \E g \in DOMAIN pcmGroups : pcmGroups[g].throughputs = <<>>) =>
        /\ \A g \in DOMAIN pcmGroups : pcmGroups[g].throughputs = <<>> =>
              pcmAverages[g].average = None /\ pcmAverages[g].max = None
        /\ pcmExit = 0
        /\ pcmSummary = Len(pcmGroups)
        /\ pcmBooks = {pcmGroups[g].sf : g \in DOMAIN pcmGroups}

\* ===================================== Exp2 phase files, line by line
\* parse_timestamp_ranges on files of label lines, time lines and other
\* lines, long enough for a label to come twice with a time line each.
MaxPhaseLines == 5

PhaseAlphabet ==
    {TsLabel("load"), TsLabel("query"),
     TsTime(IsoZ(1), IsoZ(2)), TsTime(IsoZ(2), IsoZ(3)), TsTime(IsoZ(3), BadZ), TsOther}

PhaseFiles == UNION {[1..n -> PhaseAlphabet] : n \in 0..MaxPhaseLines}

PhaseInit ==
    /\ tsExists = TRUE
    /\ tsLines \in PhaseFiles
    /\ tsFn = "none"
    /\ tsRet = <<>>
    /\ NotTsParked

PhaseNext == Exp2ParseRanges

SpecPhases == PhaseInit /\ [][PhaseNext]_vars

PhaseLabelLines == {j \in DOMAIN tsLines : tsLines[j].k = "label"}
PhaseTimeLines == {i \in DOMAIN tsLines : tsLines[i].k = "time"}

\* the time line that consumes label line j: the first time line after it,
\* unless another label line comes before that one
ConsumerOf(j) ==
    {i \in PhaseTimeLines :
        /\ j < i
        /\ \A h \in (j + 1)..(i - 1) : tsLines[h].k \notin {"label", "time"}}

\* the label lines that give an interval: consumed by a time line whose two
\* timestamps parse
GivingLines == {j \in PhaseLabelLines : \E i \in ConsumerOf(j) : TsWellFormed(i)}

\* C27: parse_timestamp_ranges gives each time line to the most recent
\* label line before it, a label line being used up by the first time line
\* after it: a time line with no pending label adds nothing, and of two
\* label lines with the same label the later one's interval is returned.
C27_LabelConsumedOnce ==
    tsFn = "exp2" =>
        /\ tsRet.raised = "none"
        /\ DOMAIN tsRet.ranges = {tsLines[j].label : j \in GivingLines}
        /\ \A j \in GivingLines :
              (\A h \in GivingLines : tsLines[h].label = tsLines[j].label => h <= j) =>
                  \A i \in ConsumerOf(j) : tsRet.ranges[tsLines[j].label] = TsInterval(i)

C27_Witness ==
    /\ tsFn = "exp2"
    /\ \E j, h \in GivingLines : j < h /\ tsLines[j].label = tsLines[h].label
    /\ \E j \in GivingLines : \E i \in ConsumerOf(j) :
          tsRet.ranges[tsLines[j].label] = TsInterval(i) /\ TsInterval(i) = <<2, 3>>
    /\ \E i \in PhaseTimeLines : TsWellFormed(i) /\ \A j \in PhaseLabelLines : i \notin ConsumerOf(j)

====
